---- MODULE Spec2Model ----
(***************************************************************************)
(* Model of the match simulation of super-ai-text-soccer:                  *)
(*   - Match (src/text_calcio/state/match.py): clock, phases, action       *)
(*     history, stoppage time, penalty shootout, kick_penalty;             *)
(*   - AsyncQueueActionProvider (src/text_calcio/loaders/action_provider   *)
(*     .py): request queue, result queue, background produce() task.       *)
(* Times that the code keeps as floats (stoppage time) are kept in         *)
(* hundredths of a minute.  Python's None is the string "None"; an         *)
(* Optional[Penalty] is a sequence of length 0 or 1.                       *)
(***************************************************************************)
EXTENDS Integers, Sequences, FiniteSets, TLC

VARIABLES
    config,        \* Match.config (the fields the state machine reads)
    curr_phase,    \* Match.curr_phase
    curr_minute,   \* Match.curr_minute
    actions,       \* Match.actions
    added_time,    \* Match.added_time, hundredths of a minute per phase
    finished,      \* Match.finished
    outcome,       \* the last call of next, kick_penalty, start or close, and how it ended
    events,        \* number of ticks on which a random draw was not the default one
    request_queue, \* AsyncQueueActionProvider.request_queue
    result_queue,  \* AsyncQueueActionProvider.result_queue
    queue_maxsize, \* maxsize of the request and of the result queue (0 = unbounded)
    task,          \* AsyncQueueActionProvider.task (index into tasks, 0 = None)
    tasks,         \* every produce() task created so far
    submitted,     \* the requests passed to request() so far, in order
    requester,     \* the caller of request(): idle or suspended in put()
    getter,        \* the caller of get(): idle or suspended in get()
    received,      \* blueprints returned by get(), in order
    generate_log   \* every loader.generate() call made so far

matchVars == <<config, curr_phase, curr_minute, actions, added_time, finished, outcome,
               events>>

provVars == <<request_queue, result_queue, queue_maxsize, task, tasks, submitted,
              requester, getter, received, generate_log>>

vars == <<config, curr_phase, curr_minute, actions, added_time, finished, outcome, events,
          request_queue, result_queue, queue_maxsize, task, tasks, submitted,
          requester, getter, received, generate_log>>

(***************************************************************************)
(* Bounds of the model.                                                    *)
(***************************************************************************)
\* number of ticks of a match on which the random draws (action occurs, outcome
\* type, review flag, loader answer, attacking side) are not the default ones
MaxEvents == 1
\* before stoppage time the action-occurs draw can be true only in the first
\* minutes of a phase
MaxOptionalMinute == 2
\* no shootout tick is taken from this minute on
MaxShootoutMinute == 5
\* no tick of a shootout that opens the match (start_from_penalties) is taken
\* from this minute on
MaxDirectShootoutMinute == 9
\* number of ticks with non-default draws taken, beyond MaxEvents, in the
\* stoppage time of the second half of a match that cannot go on after it
MaxLateEvents == 1
\* number of advance calls made after the clock has run out on a finished match
MaxIdleTicks == 1
\* number of request() calls, and of get() calls, made on a provider
MaxRequests == 2
\* number of start() calls made on a provider
MaxTasks == 2

None == "None"

(***************************************************************************)
(* Match.Phase                                                             *)
(***************************************************************************)
Phase == {"FIRST_HALF", "SECOND_HALF", "FIRST_EXTRA_TIME", "SECOND_EXTRA_TIME", "PENALTIES"}

PhaseId(p) ==
    CASE p = "FIRST_HALF" -> 0
      [] p = "SECOND_HALF" -> 1
      [] p = "FIRST_EXTRA_TIME" -> 2
      [] p = "SECOND_EXTRA_TIME" -> 3
      [] p = "PENALTIES" -> 4

duration_minutes(p) ==
    CASE p = "FIRST_HALF" -> 45
      [] p = "SECOND_HALF" -> 45
      [] p = "FIRST_EXTRA_TIME" -> 15
      [] p = "SECOND_EXTRA_TIME" -> 15
      [] p = "PENALTIES" -> 0

\* Phase.__lt__
PhaseLt(p, q) == PhaseId(p) < PhaseId(q)

(***************************************************************************)
(* MatchConfig                                                             *)
(***************************************************************************)
TieBreakers == {"allow_tie", "on_tie_extra_time_and_penalties", "on_tie_penalties"}

\* the stoppage ranges of MatchConfig, in hundredths of a minute
goal_added_time_min == 50
goal_added_time_max == 150
penalty_added_time_min == 75
penalty_added_time_max == 175
var_added_time_min == 100
var_added_time_max == 200

\* values of penalties_shoot_count the model runs with (the default is 5)
ShootCounts == {1, 5}

Configs ==
    [tie_breaker : TieBreakers,
     start_from_penalties : BOOLEAN,
     penalties_shoot_count : ShootCounts]

\* np.random.uniform(lo, hi): the two ends of the range
Uniform(lo, hi) == {lo, hi}

(***************************************************************************)
(* ActionRequest, ActionBlueprint                                          *)
(***************************************************************************)
ActionType == {"goal", "no_goal", "penalty", "own_goal"}

ActionRequests == [action_type : ActionType, use_var : BOOLEAN]

get_player_valid_placeholders ==
    {"{atk_1}", "{atk_2}", "{atk_3}", "{atk_4}", "{atk_goalie}",
     "{def_1}", "{def_2}", "{def_3}", "{def_4}", "{def_goalie}"}

\* what a loader can answer as phrases, scorer and assist: no scorer, a
\* narration with two recognized roles, or (as the test loader does) no phrase
\* and names that are no placeholder
LoaderAnswers ==
    {[phrases |-> <<>>, scorer_player |-> None, assist_player |-> None],
     [phrases |-> <<"{atk_1} shoots">>,
      scorer_player |-> "{atk_1}", assist_player |-> "{atk_2}"],
     [phrases |-> <<>>, scorer_player |-> "culo", assist_player |-> "cacca"]}

\* the blueprints a loader can generate for a request: the outcome type and
\* the review flag are the request's, scorer and assist are the loader's
LoaderOutputs(req) ==
    {[action_type |-> req.action_type, use_var |-> req.use_var,
      phrases |-> a.phrases,
      scorer_player |-> a.scorer_player, assist_player |-> a.assist_player] :
        a \in LoaderAnswers}

\* ActionBlueprint.validate (the phrases of LoaderAnswers have recognized
\* placeholders only, the evaluations are empty)
validate(bp) ==
    /\ ~(bp.action_type = "goal" /\ bp.scorer_player = None)
    /\ (bp.scorer_player # None => bp.scorer_player \in get_player_valid_placeholders)
    /\ (bp.assist_player # None => bp.assist_player \in get_player_valid_placeholders)

ValidBlueprints(req) == {bp \in LoaderOutputs(req) : validate(bp)}

(***************************************************************************)
(* Penalty                                                                 *)
(***************************************************************************)
KickerNames == {"Dani"}

\* the Penalty objects create_player_kicked_penalty can return
Penalties ==
    {p \in [player_kicking : KickerNames, is_goal : BOOLEAN, is_out : BOOLEAN] :
        ~(p.is_goal /\ p.is_out)}

(***************************************************************************)
(* Action                                                                  *)
(***************************************************************************)
\* Action.__init__ followed by Action.__post_init__
NewAction(team, phase, minute, type, goal_player, assist_player, sentences, penalty_info) ==
    [team_atk_id |-> team,
     phase |-> phase,
     minute |-> minute,
     type |-> type,
     goal_player |->
        IF type = "penalty"
        THEN (IF penalty_info = <<>> THEN None ELSE penalty_info[1].player_kicking)
        ELSE goal_player,
     assist_player |->
        IF type \in {"penalty", "own_goal"} THEN None ELSE assist_player,
     sentences |-> sentences,
     penalty_info |-> penalty_info]

create_from_blueprint_previous_minute(bp, phase, minute, atk_team_id) ==
    NewAction(atk_team_id, phase, minute - 1, bp.action_type,
              bp.scorer_player, bp.assist_player, bp.phrases, <<>>)

\* Action.create_from_blueprint
create_from_blueprint(bp, phase, minute, atk_team_id) ==
    NewAction(atk_team_id, phase, minute, bp.action_type,
              bp.scorer_player, bp.assist_player, bp.phrases, <<>>)

\* Action.is_goal
is_goal(a) == a.goal_player # None

\* Action.is_penalty_pending
action_is_penalty_pending(a) == a.type = "penalty" /\ a.penalty_info = <<>>

action_kick_penalty_always_scores(a, penalty) ==
    [a EXCEPT !.penalty_info = <<penalty>>,
              !.assist_player = None,
              !.goal_player = penalty.player_kicking]

\* Action.kick_penalty (the caller has checked that the penalty is pending)
action_kick_penalty(a, penalty) ==
    [a EXCEPT !.penalty_info = <<penalty>>,
              !.assist_player = None,
              !.goal_player = IF penalty.is_goal THEN penalty.player_kicking ELSE None]

(***************************************************************************)
(* Match: queries                                                          *)
(***************************************************************************)
\* int(round(x)) of a value in hundredths: Python rounds halves to even
RoundHundredths(x) ==
    LET q == x \div 100
        r == x % 100
    IN  IF r < 50 THEN q
        ELSE IF r > 50 THEN q + 1
        ELSE IF q % 2 = 0 THEN q ELSE q + 1

\* Match.get_added_time_minutes
get_added_time_minutes(at, phase) == RoundHundredths(at[phase])

\* Match.get_current_score
ScoreOf(acts, team) ==
    Cardinality({i \in 1..Len(acts) : is_goal(acts[i]) /\ acts[i].team_atk_id = team})

get_current_score(acts) == <<ScoreOf(acts, 0), ScoreOf(acts, 1)>>

\* Match.get_current_action: index of the first action at the current tick, 0 if none
CurrentActionIndex(acts, phase, minute) ==
    LET here == {i \in 1..Len(acts) : acts[i].minute = minute /\ acts[i].phase = phase}
    IN  IF here = {} THEN 0 ELSE CHOOSE i \in here : \A j \in here : i <= j

is_penalty_pending_resolved_too ==
    LET i == CurrentActionIndex(actions, curr_phase, curr_minute)
    IN  i # 0 /\ actions[i].type = "penalty"

is_penalty_pending_previous_tick ==
    LET i == CurrentActionIndex(actions, curr_phase, curr_minute - 1)
    IN  i # 0 /\ action_is_penalty_pending(actions[i])

\* Match.is_penalty_pending
is_penalty_pending ==
    LET i == CurrentActionIndex(actions, curr_phase, curr_minute)
    IN  i # 0 /\ action_is_penalty_pending(actions[i])

(***************************************************************************)
(* Match: construction                                                     *)
(***************************************************************************)
\* AsyncQueueActionProvider.__init__: the queues are the caller's or new
\* unbounded ones
ProviderConstructed(maxsize) ==
    /\ request_queue = <<>>
    /\ result_queue = <<>>
    /\ queue_maxsize = maxsize
    /\ task = 0
    /\ tasks = <<>>
    /\ submitted = <<>>
    /\ requester = <<>>
    /\ getter = "idle"
    /\ received = <<>>
    /\ generate_log = {}

MatchConstructedAtMinuteZero(cfg) ==
    /\ config = cfg
    /\ curr_phase = (IF cfg.start_from_penalties THEN "PENALTIES" ELSE "FIRST_HALF")
    /\ curr_minute = 0
    /\ actions = <<>>
    /\ added_time = [p \in Phase |-> 0]
    /\ finished = FALSE
    /\ outcome = [op |-> "init", raised |-> FALSE]
    /\ events = 0

\* Match.__init__
MatchConstructed(cfg) ==
    /\ config = cfg
    /\ curr_phase = (IF cfg.start_from_penalties THEN "PENALTIES" ELSE "FIRST_HALF")
    /\ curr_minute = 1
    /\ actions = <<>>
    /\ added_time = [p \in Phase |-> 0]
    /\ finished = FALSE
    /\ outcome = [op |-> "init", raised |-> FALSE]
    /\ events = 0

MatchInit ==
    /\ \E cfg \in Configs : MatchConstructed(cfg)
    /\ ProviderConstructed([request |-> 0, result |-> 0])

(***************************************************************************)
(* Match.next                                                              *)
(***************************************************************************)
\* the advance calls the model takes: see MaxShootoutMinute and MaxIdleTicks
TickAllowed ==
    IF curr_phase = "PENALTIES"
    THEN curr_minute < (IF config.start_from_penalties
                        THEN MaxDirectShootoutMinute ELSE MaxShootoutMinute)
    ELSE curr_minute < duration_minutes(curr_phase)
                       + get_added_time_minutes(added_time, curr_phase) + 1 + MaxIdleTicks

\* the default draws: no action unless forced, a no_goal request without
\* review answered without scorer and assist, side 0 attacking
PlainBlueprint ==
    [action_type |-> "no_goal", use_var |-> FALSE, phrases |-> <<>>,
     scorer_player |-> None, assist_player |-> None]

IsDefaultDraw(do_action, blueprint, atk_team, atk_teams) ==
    /\ ~do_action
    /\ blueprint = PlainBlueprint
    /\ (0 \in atk_teams => atk_team = 0)

\* the number of ticks with non-default draws a match can have had before a
\* tick at `minute` of `phase` has them too: see MaxEvents and MaxLateEvents
EventBudget(minute, phase, tie_breaker) ==
    IF /\ minute > duration_minutes(phase)
       /\ phase = "SECOND_HALF"
       /\ tie_breaker = "allow_tie"
    THEN MaxEvents + MaxLateEvents
    ELSE MaxEvents

\* the values the action-occurs draw can take: see MaxOptionalMinute
DoActionDraws(minute, phase) ==
    IF minute <= MaxOptionalMinute \/ minute > duration_minutes(phase)
    THEN BOOLEAN ELSE {FALSE}

\* next() refused: a penalty is pending
NextRaises ==
    /\ is_penalty_pending
    /\ outcome' = [op |-> "next", raised |-> TRUE]
    /\ UNCHANGED <<config, curr_phase, curr_minute, actions, added_time, finished, events>>

penalties_remaining_no_count(shoot_count, minute) == shoot_count

\* the kicks the side to kick at `minute` of the shootout still has
penalties_remaining(shoot_count, minute) ==
    LET penalty_kick_count == (minute - 1) \div 2
    IN  IF shoot_count - penalty_kick_count > 1
        THEN shoot_count - penalty_kick_count ELSE 1

penalty_blueprint_narrated ==
    [action_type |-> "penalty", use_var |-> FALSE,
     phrases |-> <<"{atk_1} shoots">>,
     scorer_player |-> "{atk_1}", assist_player |-> None]

\* ActionBlueprint("penalty", False, [], {}, None, None)
penalty_blueprint ==
    [action_type |-> "penalty", use_var |-> FALSE,
     phrases |-> <<>>,
     scorer_player |-> None, assist_player |-> None]

\* next() in the PENALTIES phase
NextShootout ==
    /\ ~is_penalty_pending
    /\ TickAllowed
    /\ curr_phase = "PENALTIES"
    /\ LET minute == curr_minute + 1
           score == get_current_score(actions)
           remaining == penalties_remaining(config.penalties_shoot_count, minute)
           curr_team_kicking == (minute + 1) % 2
           score_curr_team == IF curr_team_kicking = 0 THEN score[1] ELSE score[2]
           score_other_team == IF curr_team_kicking = 0 THEN score[2] ELSE score[1]
       IN  /\ curr_minute' = minute
           /\ IF score_curr_team + remaining < score_other_team
              THEN /\ finished' = TRUE
                   /\ actions' = actions
              ELSE /\ finished' = finished
                   /\ actions' = Append(actions,
                          create_from_blueprint(penalty_blueprint, curr_phase, minute,
                                                curr_team_kicking))
    /\ outcome' = [op |-> "next", raised |-> FALSE]
    /\ UNCHANGED <<config, curr_phase, added_time, events>>

\* The end-of-phase rules of next(): whether the clock rolls over to minute 1,
\* the phase that follows and whether the match is finished.
Stay(phase) == [roll |-> FALSE, phase |-> phase, finished |-> TRUE]

RollTo(phase) == [roll |-> TRUE, phase |-> phase, finished |-> FALSE]

FirstHalfEndNoReset == [roll |-> FALSE, phase |-> "SECOND_HALF", finished |-> FALSE]

\* FIRST_HALF has expired
FirstHalfEnd == RollTo("SECOND_HALF")

SecondHalfEndNoAllowTie(tie_breaker, is_tie) ==
    IF is_tie
    THEN RollTo(IF tie_breaker = "on_tie_extra_time_and_penalties"
                THEN "FIRST_EXTRA_TIME"
                ELSE IF tie_breaker = "on_tie_penalties"
                     THEN "PENALTIES" ELSE "SECOND_HALF")
    ELSE Stay("SECOND_HALF")

SecondHalfEndAlwaysExtraTime(tie_breaker, is_tie) ==
    IF tie_breaker = "allow_tie"
    THEN Stay("SECOND_HALF")
    ELSE IF is_tie THEN RollTo("FIRST_EXTRA_TIME") ELSE Stay("SECOND_HALF")

SecondHalfEndPenaltiesOnAnyScore(tie_breaker, is_tie) ==
    IF tie_breaker = "allow_tie"
    THEN Stay("SECOND_HALF")
    ELSE IF tie_breaker = "on_tie_penalties"
         THEN RollTo("PENALTIES")
         ELSE IF is_tie THEN RollTo("FIRST_EXTRA_TIME") ELSE Stay("SECOND_HALF")

\* SECOND_HALF has expired
SecondHalfEnd(tie_breaker, is_tie) ==
    IF tie_breaker = "allow_tie"
    THEN Stay("SECOND_HALF")
    ELSE IF is_tie
         THEN RollTo(IF tie_breaker = "on_tie_extra_time_and_penalties"
                     THEN "FIRST_EXTRA_TIME"
                     ELSE IF tie_breaker = "on_tie_penalties"
                          THEN "PENALTIES" ELSE "SECOND_HALF")
         ELSE Stay("SECOND_HALF")

\* FIRST_EXTRA_TIME has expired
FirstExtraTimeEnd == RollTo("SECOND_EXTRA_TIME")

SecondExtraTimeEndAlwaysPenalties(is_tie) == RollTo("PENALTIES")

\* SECOND_EXTRA_TIME has expired
SecondExtraTimeEnd(is_tie) ==
    IF is_tie THEN RollTo("PENALTIES") ELSE Stay("SECOND_EXTRA_TIME")

PhaseEnd(phase, tie_breaker, is_tie) ==
    CASE phase = "FIRST_HALF" -> FirstHalfEnd
      [] phase = "SECOND_HALF" -> SecondHalfEnd(tie_breaker, is_tie)
      [] phase = "FIRST_EXTRA_TIME" -> FirstExtraTimeEnd
      [] phase = "SECOND_EXTRA_TIME" -> SecondExtraTimeEnd(is_tie)

\* the phase-expired test of next(), on the incremented minute
PhaseExpired(minute, phase, at) ==
    minute > duration_minutes(phase) + get_added_time_minutes(at, phase)

\* next() on a tick past the end of a non-shootout phase
NextPhaseEnd ==
    /\ ~is_penalty_pending
    /\ TickAllowed
    /\ curr_phase # "PENALTIES"
    /\ PhaseExpired(curr_minute + 1, curr_phase, added_time)
    /\ LET score == get_current_score(actions)
           e == PhaseEnd(curr_phase, config.tie_breaker, score[1] = score[2])
       IN  /\ curr_minute' = (IF e.roll THEN 1 ELSE curr_minute + 1)
           /\ curr_phase' = e.phase
           /\ finished' = (finished \/ e.finished)
    /\ outcome' = [op |-> "next", raised |-> FALSE]
    /\ UNCHANGED <<config, actions, added_time, events>>

AddedTimeDrawsAnyMinute(bp, minute, phase) ==
    LET byType ==
            IF bp.action_type = "goal"
            THEN Uniform(goal_added_time_min, goal_added_time_max)
            ELSE IF bp.action_type = "penalty"
                 THEN Uniform(penalty_added_time_min, penalty_added_time_max)
                 ELSE {0}
        byVar ==
            IF bp.use_var THEN Uniform(var_added_time_min, var_added_time_max)
            ELSE {0}
    IN  {x + y : x \in byType, y \in byVar}

\* the stoppage time a blueprint played at `minute` adds to its phase
AddedTimeDraws(bp, minute, phase) ==
    IF minute <= duration_minutes(phase)
    THEN LET byType ==
                 IF bp.action_type = "goal"
                 THEN Uniform(goal_added_time_min, goal_added_time_max)
                 ELSE IF bp.action_type = "penalty"
                      THEN Uniform(penalty_added_time_min, penalty_added_time_max)
                      ELSE {0}
             byVar ==
                 IF bp.use_var THEN Uniform(var_added_time_min, var_added_time_max)
                 ELSE {0}
         IN  {x + y : x \in byType, y \in byVar}
    ELSE {0}

AtkTeamsAlwaysRandom(is_last_minute, score) == {0, 1}

\* the attacking side of an action of next()
AtkTeams(is_last_minute, score) ==
    IF is_last_minute /\ score[1] # score[2]
    THEN {IF score[1] <= score[2] THEN 0 ELSE 1}
    ELSE {0, 1}

IsLastMinuteNominal(minute, phase, at) == minute = duration_minutes(phase)

IsLastMinuteNever(minute, phase, at) == FALSE

\* is_last_minute of next(): the minute is the last one of the phase with the
\* stoppage time accrued so far
IsLastMinute(minute, phase, at) ==
    minute = duration_minutes(phase) + get_added_time_minutes(at, phase)

\* the blueprint as it is put on the result queue
Generated(bp, req) ==
    [request_id |-> req.id, action_type |-> bp.action_type, use_var |-> bp.use_var,
     phrases |-> bp.phrases,
     scorer_player |-> bp.scorer_player, assist_player |-> bp.assist_player]

prefetch_blueprints_twice(requests, req) ==
    LET one == Append(requests, [id |-> Len(requests) + 1,
                                 action_type |-> req.action_type,
                                 use_var |-> req.use_var])
    IN  Append(one, [id |-> Len(one) + 1,
                     action_type |-> req.action_type,
                     use_var |-> req.use_var])

\* Match.prefetch_blueprints(n=1): one request of the type and review flag
\* drawn, added to the requests made
prefetch_blueprints(requests, req) ==
    Append(requests, [id |-> Len(requests) + 1,
                      action_type |-> req.action_type,
                      use_var |-> req.use_var])

\* lines 504-506 of next(): the request, and the get() that returns the
\* blueprint of the oldest request not yet answered
ProviderExchange(called, req, blueprint) ==
    IF called
    THEN /\ submitted' = prefetch_blueprints(submitted, req)
         /\ received' = Append(received,
                               Generated(blueprint, submitted'[Len(received) + 1]))
         /\ UNCHANGED <<request_queue, result_queue, queue_maxsize, task, tasks,
                        requester, getter, generate_log>>
    ELSE UNCHANGED provVars

\* next() on a minute of play of a non-shootout phase. With with_provider the
\* step has what the call does to the action provider (ProviderExchange);
\* without, the provider is left out.
NextStandardWith(with_provider) ==
    /\ ~is_penalty_pending
    /\ TickAllowed
    /\ curr_phase # "PENALTIES"
    /\ ~PhaseExpired(curr_minute + 1, curr_phase, added_time)
    /\ LET minute == curr_minute + 1
           score == get_current_score(actions)
           is_last_minute == IsLastMinute(minute, curr_phase, added_time)
       IN  /\ curr_minute' = minute
           /\ \E do_action \in DoActionDraws(minute, curr_phase) :
                IF do_action \/ is_last_minute
                THEN \E req \in ActionRequests :
                     \E blueprint \in ValidBlueprints(req) :
                     \E atk_team \in AtkTeams(is_last_minute, score) :
                     \E added \in AddedTimeDraws(blueprint, minute, curr_phase) :
                        LET default == IsDefaultDraw(do_action, blueprint, atk_team,
                                           AtkTeams(is_last_minute, score))
                        IN  /\ default \/ events < EventBudget(minute, curr_phase, config.tie_breaker)
                            /\ events' = (IF default THEN events ELSE events + 1)
                            /\ added_time' = [added_time EXCEPT ![curr_phase] = @ + added]
                            /\ actions' = Append(actions,
                                   create_from_blueprint(blueprint, curr_phase, minute,
                                                         atk_team))
                            /\ IF with_provider
                               THEN ProviderExchange(TRUE, req, blueprint)
                               ELSE TRUE
                ELSE /\ UNCHANGED <<actions, added_time, events>>
                     /\ IF with_provider
                        THEN ProviderExchange(FALSE, <<>>, <<>>)
                        ELSE TRUE
    /\ outcome' = [op |-> "next", raised |-> FALSE]
    /\ UNCHANGED <<config, curr_phase, finished>>

\* next() as MatchSpec has it
NextStandard == NextStandardWith(FALSE)

next == NextRaises \/ NextShootout \/ NextPhaseEnd \/ NextStandard

(***************************************************************************)
(* Match.kick_penalty                                                      *)
(***************************************************************************)
KickPenalty ==
    /\ is_penalty_pending
    /\ \E penalty \in Penalties :
         LET i == CurrentActionIndex(actions, curr_phase, curr_minute)
         IN  actions' = [actions EXCEPT ![i] = action_kick_penalty(@, penalty)]
    /\ outcome' = [op |-> "kick_penalty", raised |-> FALSE]
    /\ UNCHANGED <<config, curr_phase, curr_minute, added_time, finished, events>>

KickPenaltyRaises ==
    /\ ~is_penalty_pending
    /\ outcome' = [op |-> "kick_penalty", raised |-> TRUE]
    /\ UNCHANGED <<config, curr_phase, curr_minute, actions, added_time, finished, events>>

kick_penalty == KickPenalty \/ KickPenaltyRaises

MatchNext == (next \/ kick_penalty) /\ UNCHANGED provVars

MatchSpec == MatchInit /\ [][MatchNext]_vars

(***************************************************************************)
(* AsyncQueueActionProvider                                                *)
(* A request carries the number of the request() call that submitted it    *)
(* (id), and a blueprint the id of the request it was generated from       *)
(* (request_id): the code has neither, they name the pairing.              *)
(***************************************************************************)
MAX_RETRIES == 3

\* the maxsize values of the queues handed to __init__ (0: unbounded)
QueueSizes == {0, 1}

\* the requests the driver submits
RequestChoices ==
    {[action_type |-> "goal", use_var |-> FALSE],
     [action_type |-> "goal", use_var |-> TRUE]}

\* asyncio.Queue.full
QueueFullNoUnbounded(q, maxsize) == Len(q) >= maxsize

QueueFull(q, maxsize) == maxsize > 0 /\ Len(q) >= maxsize

\* asyncio.Queue.get_nowait on a non-empty queue: the item taken (the oldest)
\* and the queue that is left
QueueTakeLast(q) == [item |-> q[Len(q)], rest |-> SubSeq(q, 1, Len(q) - 1)]

QueueTake(q) == [item |-> Head(q), rest |-> Tail(q)]

ProviderInit ==
    /\ MatchConstructed([tie_breaker |-> "on_tie_extra_time_and_penalties",
                         start_from_penalties |-> FALSE,
                         penalties_shoot_count |-> 5])
    /\ \E maxsize \in [request : QueueSizes, result : QueueSizes] :
          ProviderConstructed(maxsize)

\* asyncio.create_task(self.produce()): a task that has not run yet
NewTask ==
    [pc |-> "get_request", request |-> <<>>, attempt |-> 0, blueprint |-> <<>>,
     ended |-> "no"]

Live(t) == tasks[t].ended = "no"

\* AsyncQueueActionProvider.start
start ==
    /\ Len(tasks) < MaxTasks
    /\ tasks' = Append(tasks, NewTask)
    /\ task' = Len(tasks) + 1
    /\ outcome' = [op |-> "start", raised |-> FALSE]
    /\ UNCHANGED <<request_queue, result_queue, queue_maxsize, submitted, requester,
                   getter, received, generate_log>>

CancelForgotten(t) == t

\* Task.cancel: CancelledError is thrown into the task at the await it is
\* suspended on, and produce() returns; a task that has ended is left alone
Cancelled(t) == IF t.ended = "no" THEN [t EXCEPT !.ended = "cancelled"] ELSE t

\* AsyncQueueActionProvider.close
close ==
    /\ IF task # 0
       THEN /\ tasks' = [tasks EXCEPT ![task] = Cancelled(@)]
            /\ task' = 0
       ELSE UNCHANGED <<tasks, task>>
    /\ outcome' = [op |-> "close", raised |-> FALSE]
    /\ UNCHANGED <<request_queue, result_queue, queue_maxsize, submitted, requester,
                   getter, received, generate_log>>

\* AsyncQueueActionProvider.request: await request_queue.put(request)
request ==
    /\ requester = <<>>
    /\ Len(submitted) < MaxRequests
    /\ \E choice \in RequestChoices :
         LET req == [id |-> Len(submitted) + 1,
                     action_type |-> choice.action_type,
                     use_var |-> choice.use_var]
         IN  /\ submitted' = Append(submitted, req)
             /\ IF QueueFull(request_queue, queue_maxsize.request)
                THEN /\ requester' = <<req>>
                     /\ request_queue' = request_queue
                ELSE /\ requester' = <<>>
                     /\ request_queue' = Append(request_queue, req)
    /\ UNCHANGED <<result_queue, queue_maxsize, task, tasks, getter, received,
                   generate_log, outcome>>

\* a request() suspended in put() resumes when the queue has room
RequestResume ==
    /\ requester # <<>>
    /\ ~QueueFull(request_queue, queue_maxsize.request)
    /\ request_queue' = Append(request_queue, requester[1])
    /\ requester' = <<>>
    /\ UNCHANGED <<result_queue, queue_maxsize, task, tasks, submitted, getter,
                   received, generate_log, outcome>>

\* AsyncQueueActionProvider.get: await result_queue.get()
get ==
    /\ getter = "idle"
    /\ Len(received) < MaxRequests
    /\ IF result_queue # <<>>
       THEN /\ received' = Append(received, QueueTake(result_queue).item)
            /\ result_queue' = QueueTake(result_queue).rest
            /\ getter' = "idle"
       ELSE /\ getter' = "waiting"
            /\ UNCHANGED <<received, result_queue>>
    /\ UNCHANGED <<request_queue, queue_maxsize, task, tasks, submitted, requester,
                   generate_log, outcome>>

\* a get() suspended on the empty result queue resumes when it has an item
GetResume ==
    /\ getter = "waiting"
    /\ result_queue # <<>>
    /\ received' = Append(received, QueueTake(result_queue).item)
    /\ result_queue' = QueueTake(result_queue).rest
    /\ getter' = "idle"
    /\ UNCHANGED <<request_queue, queue_maxsize, task, tasks, submitted, requester,
                   generate_log, outcome>>

(***************************************************************************)
(* AsyncQueueActionProvider.produce, one step per await                    *)
(***************************************************************************)
\* the call self.loader.generate(request) as it is made
GenerateCall(t, req, attempt) ==
    [task |-> t, request |-> req, attempt |-> attempt, result |-> "pending"]

\* the call of task t that has not returned
PendingCall(log, t) == CHOOSE c \in log : c.task = t /\ c.result = "pending"

\* the log once the pending call of task t has ended with `result`
CallEnded(log, t, result) ==
    (log \ {PendingCall(log, t)}) \cup {[PendingCall(log, t) EXCEPT !.result = result]}

\* the request that a retry passes to the loader
RetryNextRequest(req, queue) == IF queue # <<>> THEN Head(queue) ELSE req

RetryRequest(req, queue) == req

\* request = await self.request_queue.get(), up to the await in generate
TaskTakeRequest(t) ==
    /\ Live(t)
    /\ tasks[t].pc = "get_request"
    /\ request_queue # <<>>
    /\ LET req == QueueTake(request_queue).item
       IN  /\ request_queue' = QueueTake(request_queue).rest
           /\ tasks' = [tasks EXCEPT ![t].pc = "generate", ![t].request = <<req>>,
                                     ![t].attempt = 0]
           /\ generate_log' = generate_log \cup {GenerateCall(t, req, 0)}
    /\ UNCHANGED <<result_queue, queue_maxsize, task, submitted, requester, getter,
                   received, outcome>>

\* the except branch of produce: retry, or report and re-raise
TaskAttemptFailed(t) ==
    LET req == tasks[t].request[1]
        attempt == tasks[t].attempt
        closed == CallEnded(generate_log, t, "failed")
    IN  /\ IF attempt < MAX_RETRIES - 1
           THEN /\ tasks' = [tasks EXCEPT ![t].attempt = attempt + 1]
                /\ generate_log' = closed \cup
                       {GenerateCall(t, RetryRequest(req, request_queue), attempt + 1)}
           ELSE /\ tasks' = [tasks EXCEPT ![t].pc = "aprint"]
                /\ generate_log' = closed
        /\ UNCHANGED result_queue

\* generate returned a blueprint that validates: put it on the result queue
TaskAttemptSucceeded(t, bp) ==
    LET req == tasks[t].request[1]
    IN  /\ generate_log' = CallEnded(generate_log, t, "ok")
        /\ IF QueueFull(result_queue, queue_maxsize.result)
           THEN /\ tasks' = [tasks EXCEPT ![t].pc = "put_result",
                                          ![t].blueprint = <<Generated(bp, req)>>]
                /\ result_queue' = result_queue
           ELSE /\ tasks' = [tasks EXCEPT ![t].pc = "get_request", ![t].request = <<>>]
                /\ result_queue' = Append(result_queue, Generated(bp, req))

\* await self.loader.generate(request) ends: it raised, or it returned
TaskGenerateEnds(t) ==
    /\ Live(t)
    /\ tasks[t].pc = "generate"
    /\ \/ TaskAttemptFailed(t)
       \/ \E bp \in LoaderOutputs(tasks[t].request[1]) :
            IF validate(bp)
            THEN TaskAttemptSucceeded(t, bp)
            ELSE TaskAttemptFailed(t)
    /\ UNCHANGED <<request_queue, queue_maxsize, task, submitted, requester, getter,
                   received, outcome>>

\* await self.result_queue.put(generated_blueprint) resumes: the queue has room
TaskPutResult(t) ==
    /\ Live(t)
    /\ tasks[t].pc = "put_result"
    /\ ~QueueFull(result_queue, queue_maxsize.result)
    /\ result_queue' = Append(result_queue, tasks[t].blueprint[1])
    /\ tasks' = [tasks EXCEPT ![t].pc = "get_request", ![t].request = <<>>,
                              ![t].blueprint = <<>>]
    /\ UNCHANGED <<request_queue, queue_maxsize, task, submitted, requester, getter,
                   received, generate_log, outcome>>

\* await aprint(...) returns and the exception is re-raised: produce() ends
TaskRaise(t) ==
    /\ Live(t)
    /\ tasks[t].pc = "aprint"
    /\ tasks' = [tasks EXCEPT ![t].ended = "failed"]
    /\ UNCHANGED <<request_queue, result_queue, queue_maxsize, task, submitted,
                   requester, getter, received, generate_log, outcome>>

produce ==
    \E t \in 1..Len(tasks) :
        TaskTakeRequest(t) \/ TaskGenerateEnds(t) \/ TaskPutResult(t) \/ TaskRaise(t)

ProviderNext ==
    /\ \/ start
       \/ close
       \/ request
       \/ RequestResume
       \/ get
       \/ GetResume
       \/ produce
    /\ UNCHANGED <<config, curr_phase, curr_minute, actions, added_time, finished, events>>

ProviderSpec == ProviderInit /\ [][ProviderNext]_vars

\* the event loop runs every task that can run: the background task, and a
\* caller suspended on a queue that has become ready
ProviderFairSpec ==
    /\ ProviderSpec
    /\ WF_vars(produce /\ UNCHANGED <<config, curr_phase, curr_minute, actions,
                                       added_time, finished, events>>)
    /\ WF_vars(GetResume /\ UNCHANGED <<config, curr_phase, curr_minute, actions,
                                         added_time, finished, events>>)
    /\ WF_vars(RequestResume /\ UNCHANGED <<config, curr_phase, curr_minute, actions,
                                             added_time, finished, events>>)

(***************************************************************************)
(* Properties of Match (MatchSpec)                                         *)
(***************************************************************************)
\* an action at the current tick is a penalty with no Penalty attached
PendingAtTick ==
    \E i \in 1..Len(actions) :
        /\ actions[i].phase = curr_phase
        /\ actions[i].minute = curr_minute
        /\ actions[i].type = "penalty"
        /\ actions[i].penalty_info = <<>>

Level == ScoreOf(actions, 0) = ScoreOf(actions, 1)

\* this step is a call of next() that was not refused
Advances == outcome'.op = "next" /\ ~outcome'.raised

\* this step is a call of next() on which phase p expires
Expires(p) ==
    /\ Advances
    /\ curr_phase = p
    /\ curr_minute + 1 > duration_minutes(p) + get_added_time_minutes(added_time, p)

\* C1: when the action at the current tick is a penalty with no Penalty
\* attached, a call of next() raises and leaves phase, minute, action list,
\* stoppage times and finished flag as they were.
C1_PendingPenaltyRefusesNext ==
    [][(PendingAtTick /\ outcome'.op = "next") =>
          /\ outcome'.raised
          /\ UNCHANGED <<curr_phase, curr_minute, actions, added_time, finished>>]_vars

C1_Witness ==
    /\ PendingAtTick
    /\ outcome = [op |-> "next", raised |-> TRUE]

C8_PenaltiesOnlySkipsExtraTime ==
    [][config.tie_breaker = "on_tie_penalties" =>
          /\ curr_phase' \notin {"FIRST_EXTRA_TIME", "SECOND_EXTRA_TIME"}
          /\ (Expires("SECOND_HALF") /\ Level =>
                curr_phase' = "PENALTIES" /\ curr_minute' = 1 /\ ~finished')
          /\ (Expires("SECOND_HALF") /\ ~Level =>
                curr_phase' = "SECOND_HALF" /\ finished')
          /\ (curr_phase = "SECOND_HALF" /\ finished =>
                curr_phase' = "SECOND_HALF" /\ finished')]_vars

C8_Witness ==
    /\ config.tie_breaker = "on_tie_penalties"
    /\ ~config.start_from_penalties
    /\ curr_phase = "PENALTIES"
    /\ curr_minute = 1
    /\ ~finished

PlayedIn(p) == \E i \in 1..Len(actions) : actions[i].phase = p

\* C9: with on_tie_extra_time_and_penalties, SECOND_HALF expiring level leads
\* to (FIRST_EXTRA_TIME, 1) and otherwise finishes; FIRST_EXTRA_TIME expiring
\* leads to (SECOND_EXTRA_TIME, 1) whatever the score; SECOND_EXTRA_TIME
\* expiring leads to (PENALTIES, 1) exactly when the scores are level and
\* otherwise finishes; a step enters PENALTIES only from SECOND_EXTRA_TIME,
\* with actions played in both extra-time halves.
C9_ExtraTimeThenPenalties ==
    [][config.tie_breaker = "on_tie_extra_time_and_penalties" =>
          /\ (Expires("SECOND_HALF") /\ Level =>
                curr_phase' = "FIRST_EXTRA_TIME" /\ curr_minute' = 1 /\ ~finished')
          /\ (Expires("SECOND_HALF") /\ ~Level =>
                curr_phase' = "SECOND_HALF" /\ finished')
          /\ (Expires("FIRST_EXTRA_TIME") =>
                curr_phase' = "SECOND_EXTRA_TIME" /\ curr_minute' = 1 /\ ~finished')
          /\ (Expires("SECOND_EXTRA_TIME") /\ Level =>
                curr_phase' = "PENALTIES" /\ curr_minute' = 1 /\ ~finished')
          /\ (Expires("SECOND_EXTRA_TIME") /\ ~Level =>
                curr_phase' = "SECOND_EXTRA_TIME" /\ finished')
          /\ (curr_phase # "PENALTIES" /\ curr_phase' = "PENALTIES" =>
                /\ curr_phase = "SECOND_EXTRA_TIME"
                /\ PlayedIn("FIRST_EXTRA_TIME")
                /\ PlayedIn("SECOND_EXTRA_TIME"))]_vars

C9_Witness ==
    /\ config.tie_breaker = "on_tie_extra_time_and_penalties"
    /\ ~config.start_from_penalties
    /\ curr_phase = "PENALTIES"
    /\ curr_minute = 1
    /\ PlayedIn("SECOND_EXTRA_TIME")

\* C10: no call moves the phase to an earlier phase; the phase changes only on
\* a call of next() on which the phase expires, which sets the minute to 1 and
\* creates no action; a call of next() that leaves the phase adds exactly 1 to
\* the minute, and kick_penalty leaves the clock.
C10_PhasesOnlyAdvance ==
    [][/\ ~PhaseLt(curr_phase', curr_phase)
       /\ (curr_phase' # curr_phase =>
             /\ Expires(curr_phase)
             /\ curr_minute' = 1
             /\ actions' = actions)
       /\ (Advances /\ curr_phase' = curr_phase => curr_minute' = curr_minute + 1)
       /\ (~Advances => curr_minute' = curr_minute /\ curr_phase' = curr_phase)]_vars

C10_Witness ==
    /\ curr_phase = "SECOND_EXTRA_TIME"
    /\ curr_minute = 1
    /\ outcome = [op |-> "next", raised |-> FALSE]

\* the score of side `team` (0 or 1)
ScoreOfSide(acts, team) == get_current_score(acts)[team + 1]

\* the side to kick on the shootout tick that follows the current one cannot
\* catch up even by scoring all the kicks it has left
CannotCatchUp ==
    LET minute == curr_minute + 1
        side == (minute + 1) % 2
        kicks_done == (minute - 1) \div 2
        left == config.penalties_shoot_count - kicks_done
        kicks_remaining == IF left >= 1 THEN left ELSE 1
    IN  ScoreOfSide(actions, 1 - side) > ScoreOfSide(actions, side) + kicks_remaining

\* C11: a call of next() on a shootout tick on which the side to kick cannot
\* catch up sets finished and creates no action; on any other shootout tick
\* it creates the pending penalty of the side to kick.
C11_ShootoutEndsWhenOutOfReach ==
    [][(curr_phase = "PENALTIES" /\ Advances) =>
          IF CannotCatchUp
          THEN finished' /\ actions' = actions /\ ~is_penalty_pending'
          ELSE /\ Len(actions') = Len(actions) + 1
               /\ is_penalty_pending'
               /\ actions'[Len(actions')].team_atk_id = curr_minute % 2]_vars

\* side 0, 3 behind with its last kick left, has ended the shootout on its turn
C11_Witness ==
    /\ curr_phase = "PENALTIES"
    /\ config.penalties_shoot_count = 5
    /\ curr_minute = 9
    /\ finished
    /\ get_current_score(actions) = <<1, 4>>
    /\ CurrentActionIndex(actions, curr_phase, curr_minute) = 0
    /\ outcome = [op |-> "next", raised |-> FALSE]

\* C12: once finished is true it stays true, and a call of next() on a
\* finished match appends no action and changes neither the phase nor the
\* score.
C12_FinishedIsTerminal ==
    [][finished =>
          /\ finished'
          /\ (outcome'.op = "next" =>
                /\ actions' = actions
                /\ curr_phase' = curr_phase
                /\ get_current_score(actions') = get_current_score(actions))]_vars

\* C13: kick_penalty on a pending penalty attaches the Penalty to the action
\* of the current tick, clears its assist, makes the kicker its scorer exactly
\* when the penalty is a goal; the penalty is then no longer pending, the score
\* of the attacking side has grown by 1 exactly when the penalty is a goal, and
\* the clock, finished, the stoppage times and the other actions are unchanged.
C13_KickPenaltyCompletesAction ==
    [][(is_penalty_pending /\ outcome'.op = "kick_penalty") =>
          LET i == CurrentActionIndex(actions, curr_phase, curr_minute)
              side == actions[i].team_atk_id
              penalty == actions'[i].penalty_info[1]
          IN  /\ ~outcome'.raised
              /\ Len(actions') = Len(actions)
              /\ \A j \in 1..Len(actions) : j # i => actions'[j] = actions[j]
              /\ actions'[i].penalty_info # <<>>
              /\ penalty \in Penalties
              /\ actions'[i].assist_player = None
              /\ actions'[i].goal_player =
                     (IF penalty.is_goal THEN penalty.player_kicking ELSE None)
              /\ actions'[i].type = "penalty"
              /\ actions'[i].team_atk_id = side
              /\ actions'[i].minute = curr_minute
              /\ actions'[i].phase = curr_phase
              /\ ~is_penalty_pending'
              /\ ScoreOfSide(actions', side) =
                     ScoreOfSide(actions, side) + (IF penalty.is_goal THEN 1 ELSE 0)
              /\ ScoreOfSide(actions', 1 - side) = ScoreOfSide(actions, 1 - side)
              /\ UNCHANGED <<config, curr_phase, curr_minute, added_time, finished>>]_vars

\* a penalty awarded in play has been kicked and missed
C13_Witness ==
    /\ outcome = [op |-> "kick_penalty", raised |-> FALSE]
    /\ curr_phase = "FIRST_HALF"
    /\ LET i == CurrentActionIndex(actions, curr_phase, curr_minute)
       IN  /\ i # 0
           /\ actions[i].penalty_info # <<>>
           /\ ~actions[i].penalty_info[1].is_goal
           /\ actions[i].goal_player = None

\* C14: kick_penalty with no penalty pending raises and changes nothing; an
\* action that has its Penalty is never changed again.
C14_KickPenaltyNeedsPending ==
    [][/\ (~is_penalty_pending /\ outcome'.op = "kick_penalty") =>
             /\ outcome'.raised
             /\ UNCHANGED <<config, curr_phase, curr_minute, actions, added_time,
                            finished>>
       /\ \A i \in 1..Len(actions) :
             (actions[i].type # "penalty" \/ actions[i].penalty_info # <<>>) =>
                 (Len(actions') >= i /\ actions'[i] = actions[i])]_vars

\* a second kick_penalty on a tick whose penalty was scored has been refused
C14_Witness ==
    /\ outcome = [op |-> "kick_penalty", raised |-> TRUE]
    /\ LET i == CurrentActionIndex(actions, curr_phase, curr_minute)
       IN  /\ i # 0
           /\ actions[i].penalty_info # <<>>
           /\ actions[i].penalty_info[1].is_goal


\* the stoppage time an action of type `type` can have added: the draw of its
\* type (goal or penalty), the draw of a review, or both
Accruals(type) ==
    LET byType ==
            IF type = "goal" THEN goal_added_time_min..goal_added_time_max
            ELSE IF type = "penalty" THEN penalty_added_time_min..penalty_added_time_max
            ELSE {}
        byVar == var_added_time_min..var_added_time_max
    IN  byType \cup byVar \cup {x + y : x \in byType, y \in byVar}

\* C20: no stoppage value ever decreases; one changes only on a call of next()
\* that stays in the phase, at a minute within the phase's nominal duration,
\* and creates an action: it is then the value of the current phase, and it
\* grows by a goal draw, a penalty draw, a review draw, or a type draw plus a
\* review draw, according to the action's type. A goal or penalty action of a
\* nominal minute always adds its draw.
C20_StoppageOnlyGrowsOnEvents ==
    [][/\ \A p \in Phase : added_time'[p] >= added_time[p]
       /\ (added_time' # added_time =>
             /\ outcome' = [op |-> "next", raised |-> FALSE]
             /\ curr_phase # "PENALTIES"
             /\ curr_phase' = curr_phase
             /\ curr_minute' = curr_minute + 1
             /\ curr_minute' <= duration_minutes(curr_phase)
             /\ \A p \in Phase : p # curr_phase => added_time'[p] = added_time[p]
             /\ Len(actions') = Len(actions) + 1
             /\ (added_time'[curr_phase] - added_time[curr_phase])
                    \in Accruals(actions'[Len(actions')].type))
       /\ (/\ Len(actions') = Len(actions) + 1
           /\ curr_phase # "PENALTIES"
           /\ curr_minute' <= duration_minutes(curr_phase)
           /\ actions'[Len(actions')].type \in {"goal", "penalty"}) =>
             added_time'[curr_phase] - added_time[curr_phase]
                 >= goal_added_time_min]_vars

\* a goal has been scored in the stoppage time of the second half, whose
\* stoppage time is still the one draw of the penalty awarded before it
C20_Witness ==
    /\ curr_phase = "SECOND_HALF"
    /\ added_time["SECOND_HALF"] = penalty_added_time_max
    /\ added_time["FIRST_HALF"] = 0
    /\ Len(actions) >= 2
    /\ actions[Len(actions)].phase = "SECOND_HALF"
    /\ actions[Len(actions)].minute > duration_minutes("SECOND_HALF")
    /\ actions[Len(actions)].type = "goal"
    /\ \E i \in 1..Len(actions) :
          /\ actions[i].phase = "SECOND_HALF"
          /\ actions[i].type = "penalty"
          /\ actions[i].minute <= duration_minutes("SECOND_HALF")

\* the fields of an action that kick_penalty leaves alone
SameButPenaltyFields(a, b) ==
    /\ a.team_atk_id = b.team_atk_id
    /\ a.phase = b.phase
    /\ a.minute = b.minute
    /\ a.type = b.type
    /\ a.sentences = b.sentences

\* C21: the history is append-only. A call of next() keeps every action
\* already present, in its place and unchanged, and appends at most one
\* action, whose phase and minute are the clock after the call. A call of
\* kick_penalty changes nothing but the penalty, scorer and assist fields of
\* the action at the current tick.
C21_HistoryAppendOnly ==
    [][/\ outcome'.op = "next" =>
             /\ Len(actions') \in {Len(actions), Len(actions) + 1}
             /\ \A i \in 1..Len(actions) : actions'[i] = actions[i]
             /\ Len(actions') = Len(actions) + 1 =>
                   /\ actions'[Len(actions')].phase = curr_phase'
                   /\ actions'[Len(actions')].minute = curr_minute'
       /\ outcome'.op = "kick_penalty" =>
             LET i == CurrentActionIndex(actions, curr_phase, curr_minute)
             IN  /\ Len(actions') = Len(actions)
                 /\ \A j \in 1..Len(actions) :
                       /\ j # i => actions'[j] = actions[j]
                       /\ SameButPenaltyFields(actions'[j], actions[j])]_vars

\* a third action has been appended at the current clock behind an action
\* of open play and a penalty that was kicked and scored
C21_Witness ==
    /\ outcome = [op |-> "next", raised |-> FALSE]
    /\ Len(actions) = 3
    /\ actions[3].phase = curr_phase
    /\ actions[3].minute = curr_minute
    /\ actions[1].type = "no_goal"
    /\ actions[2].type = "penalty"
    /\ actions[2].penalty_info # <<>>
    /\ actions[2].goal_player # None

(***************************************************************************)
(* Properties of AsyncQueueActionProvider (ProviderSpec, ProviderFairSpec)  *)
(***************************************************************************)
\* the calls of loader.generate made for the request with id r
CallsFor(r) == {c \in generate_log : c.request.id = r}

\* the blueprints generated from request r that are on the result queue or
\* have been returned by get()
PlacedFor(r) ==
    Cardinality({i \in 1..Len(result_queue) : result_queue[i].request_id = r})
    + Cardinality({i \in 1..Len(received) : received[i].request_id = r})

\* the tasks suspended in result_queue.put with a blueprint of request r
HeldFor(r) ==
    Cardinality({t \in 1..Len(tasks) :
        tasks[t].pc = "put_result" /\ tasks[t].blueprint[1].request_id = r})

\* C2: on a provider started once, the k-th blueprint returned by get() was
\* generated from the k-th request submitted (its outcome type and review flag
\* are that request's), whatever the retries and the interleaving.
C2_FifoPairing ==
    Len(tasks) = 1 =>
        \A k \in 1..Len(received) :
            /\ received[k].request_id = k
            /\ received[k].action_type = submitted[k].action_type
            /\ received[k].use_var = submitted[k].use_var

C2_Witness ==
    /\ Len(tasks) = 1
    /\ Len(received) = MaxRequests
    /\ \E c \in generate_log : c.result = "failed"
    /\ submitted[1].use_var # submitted[2].use_var

\* the get() in progress waits for the blueprint of a request on which the
\* background task has used up its attempts
WaitingOnExhausted ==
    /\ getter = "waiting"
    /\ \E t \in 1..Len(tasks) :
          /\ tasks[t].ended = "failed"
          /\ tasks[t].request[1].id = Len(received) + 1

\* C3: a get() that waits for the blueprint of a request whose 3 attempts
\* have all failed comes to an end (the claim: with an error).
C3_FailureReachesGet == [](WaitingOnExhausted => <>(getter # "waiting"))

\* C4: for every request the loader is called at most 3 times, always with
\* the request as it was submitted, in attempts 0, 1, 2 without a gap; a
\* failed attempt 0 or 1 has a next attempt; a successful attempt is the last
\* one and puts exactly one blueprint on the result queue.
C4_BoundedRetries ==
    \A r \in 1..Len(submitted) :
        LET calls == CallsFor(r)
            ok == {c \in calls : c.result = "ok"}
        IN  /\ Cardinality(calls) <= 3
            /\ \A c \in calls : c.request = submitted[r]
            /\ {c.attempt : c \in calls} = 0..(Cardinality(calls) - 1)
            /\ \A c \in calls :
                  (c.result = "failed" /\ c.attempt < 2) =>
                      \E d \in calls : d.attempt = c.attempt + 1
            /\ \A c \in ok : \A d \in calls : d.attempt <= c.attempt
            /\ Cardinality(ok) <= 1
            /\ PlacedFor(r) + HeldFor(r) = Cardinality(ok)

C4_Witness ==
    \E r \in 1..Len(submitted) :
        /\ Cardinality(CallsFor(r)) = 3
        /\ \E c \in CallsFor(r) : c.attempt = 2 /\ c.result = "ok"
        /\ PlacedFor(r) = 1

NoOrphanTask == \A t \in 1..Len(tasks) : t # task => tasks[t].ended # "no"

\* a request whose call was in flight when its task was cancelled is not
\* completed: the call stays without result and no blueprint of it exists
AbandonedStayAbandoned ==
    \A t \in 1..Len(tasks) :
        (tasks[t].ended = "cancelled" /\ tasks[t].pc = "generate") =>
            /\ \E c \in generate_log :
                  c.task = t /\ c.request = tasks[t].request[1] /\ c.result = "pending"
            /\ PlacedFor(tasks[t].request[1].id) = 0

\* C6: close() on a started provider cancels its background task; while the
\* provider is closed no blueprint is added to the result queue, no request
\* leaves the request queue and the loader is not called; a call in flight at
\* close() is never completed; close() on a provider that is not started
\* changes nothing.
C6_CloseCancels ==
    [][/\ (task # 0 /\ task' = 0) =>
             outcome'.op = "close" /\ tasks'[task].ended # "no"
       /\ (outcome' # outcome /\ outcome'.op = "close" /\ task = 0) =>
             UNCHANGED <<request_queue, result_queue, task, tasks, submitted,
                         requester, getter, received, generate_log>>
       /\ (task' = 0 /\ NoOrphanTask') =>
             /\ Len(result_queue') + Len(received') = Len(result_queue) + Len(received)
             /\ Len(request_queue') >= Len(request_queue)
             /\ generate_log' = generate_log
             /\ AbandonedStayAbandoned']_vars

C6_Witness ==
    /\ outcome.op = "close"
    /\ task = 0
    /\ request_queue # <<>>
    /\ NoOrphanTask
    /\ \E t \in 1..Len(tasks) : tasks[t].ended = "cancelled" /\ tasks[t].pc = "generate"

(***************************************************************************)
(* Penalty (src/text_calcio/state/penalty.py)                              *)
(***************************************************************************)
ALL_PENALTY_DIRECTIONS ==
    <<"left_top", "left_low", "center_top", "center_low", "right_top", "right_low">>

\* the Literal type PenaltyDirection
PenaltyDirection ==
    {"left_top", "left_low", "center_top", "center_low", "right_top", "right_low"}

\* kick_direction.split("_")[0]
x_of(direction) ==
    CASE direction \in {"left_top", "left_low"} -> "left"
      [] direction \in {"center_top", "center_low"} -> "center"
      [] direction \in {"right_top", "right_low"} -> "right"

\* np.random.random(), in hundredths: a value of [0, 1)
RandomValues == {0, 9, 10, 30, 49, 50, 75, 99}

kick_error_chance == 10

goal_chance_same_side == 50

determine_penalty_outcome_by_side(kick_direction, dive_direction, random_value) ==
    IF random_value < kick_error_chance
    THEN [is_goal |-> FALSE, is_out |-> TRUE]
    ELSE IF x_of(kick_direction) = x_of(dive_direction)
         THEN [is_goal |-> FALSE, is_out |-> FALSE]
         ELSE [is_goal |-> TRUE, is_out |-> FALSE]

\* Penalty.determine_penalty_outcome, for the value random_value of its draw
determine_penalty_outcome(kick_direction, dive_direction, random_value) ==
    IF random_value < kick_error_chance
    THEN [is_goal |-> FALSE, is_out |-> TRUE]
    ELSE IF kick_direction = dive_direction
         THEN [is_goal |-> FALSE, is_out |-> FALSE]
         ELSE IF x_of(kick_direction) # x_of(dive_direction)
              THEN [is_goal |-> TRUE, is_out |-> FALSE]
              ELSE [is_goal |-> random_value < goal_chance_same_side, is_out |-> FALSE]

\* Penalty.__post_init__: the test it makes. The class is an attrs class
\* (attr.s), whose generated __init__ calls __attrs_post_init__ and no
\* __post_init__: the test is never run.
Penalty__post_init__raises(goal, out) == out /\ goal

\* Penalty(...): the __init__ attrs generates stores the fields
PenaltyInit(kick_direction, dive_direction, goal, out) ==
    [raised |-> FALSE,
     penalty |-> [player_kicking |-> "Dani", kick_direction |-> kick_direction,
                  dive_direction |-> dive_direction,
                  is_goal |-> goal, is_out |-> out]]

\* a call of Penalty.determine_penalty_outcome
DeterminePenaltyOutcome ==
    /\ \E kick \in PenaltyDirection, dive \in PenaltyDirection,
          random_value \in RandomValues :
          outcome' = [op |-> "determine_penalty_outcome", raised |-> FALSE,
                      kick_direction |-> kick, dive_direction |-> dive,
                      random_value |-> random_value,
                      result |-> determine_penalty_outcome(kick, dive, random_value)]
    /\ UNCHANGED <<config, curr_phase, curr_minute, actions, added_time, finished, events>>

\* a call of the constructor Penalty(...)
NewPenalty ==
    /\ \E kick \in PenaltyDirection, dive \in PenaltyDirection,
          goal \in BOOLEAN, out \in BOOLEAN :
          LET made == PenaltyInit(kick, dive, goal, out)
          IN  outcome' = [op |-> "Penalty", raised |-> made.raised,
                          penalty |-> made.penalty]
    /\ UNCHANGED <<config, curr_phase, curr_minute, actions, added_time, finished, events>>

\* Penalty.create_player_kicked_penalty
create_player_kicked_penalty ==
    /\ \E kick \in PenaltyDirection, dive \in PenaltyDirection,
          random_value \in RandomValues :
          LET result == determine_penalty_outcome(kick, dive, random_value)
              made == PenaltyInit(kick, dive, result.is_goal, result.is_out)
          IN  outcome' = [op |-> "create_player_kicked_penalty", raised |-> made.raised,
                          random_value |-> random_value, penalty |-> made.penalty]
    /\ UNCHANGED <<config, curr_phase, curr_minute, actions, added_time, finished, events>>

\* the state the calls of the pure functions are made in
DefaultMatchInit ==
    /\ MatchConstructed([tie_breaker |-> "on_tie_extra_time_and_penalties",
                         start_from_penalties |-> FALSE,
                         penalties_shoot_count |-> 5])
    /\ ProviderConstructed([request |-> 0, result |-> 0])

PenaltyNext ==
    /\ DeterminePenaltyOutcome \/ NewPenalty \/ create_player_kicked_penalty
    /\ UNCHANGED provVars

PenaltySpec == DefaultMatchInit /\ [][PenaltyNext]_vars

\* C15: penalty resolution never returns is_goal and is_out both true, and no
\* Penalty with both flags true is constructed.
C15_GoalAndOutExclusive ==
    /\ outcome.op = "determine_penalty_outcome" =>
          ~(outcome.result.is_goal /\ outcome.result.is_out)
    /\ (outcome.op \in {"Penalty", "create_player_kicked_penalty"} /\ ~outcome.raised) =>
          ~(outcome.penalty.is_goal /\ outcome.penalty.is_out)

\* C16: when the kick-error draw fires the penalty is out and no goal; when
\* it does not, equal directions give a save, different horizontal zones a
\* goal, and the same horizontal zone with another height is never out and is
\* a goal exactly when the draw is below one half.
C16_PenaltyResolution ==
    outcome.op = "determine_penalty_outcome" =>
        LET kick == outcome.kick_direction
            dive == outcome.dive_direction
            r == outcome.result
            left == {"left_top", "left_low"}
            center == {"center_top", "center_low"}
            same_side == \E side \in {left, center, PenaltyDirection \ (left \cup center)} :
                            kick \in side /\ dive \in side
        IN  IF outcome.random_value < 10
            THEN r = [is_goal |-> FALSE, is_out |-> TRUE]
            ELSE /\ ~r.is_out
                 /\ kick = dive => ~r.is_goal
                 /\ ~same_side => r.is_goal
                 /\ (same_side /\ kick # dive) => (r.is_goal <=> outcome.random_value < 50)

\* the keeper went to the right side at the wrong height and the kick went in
C16_Witness ==
    /\ outcome.op = "determine_penalty_outcome"
    /\ outcome.kick_direction = "left_top"
    /\ outcome.dive_direction = "left_low"
    /\ outcome.random_value >= 10
    /\ outcome.result = [is_goal |-> TRUE, is_out |-> FALSE]

\* the same kick and dive with a draw above one half: no goal, not out
C16_SameSideMissReached ==
    /\ outcome.op = "determine_penalty_outcome"
    /\ outcome.kick_direction = "left_top"
    /\ outcome.dive_direction = "left_low"
    /\ outcome.result = [is_goal |-> FALSE, is_out |-> FALSE]

(***************************************************************************)
(* ActionBlueprint.validate (src/text_calcio/loaders/action.py)            *)
(* A phrase is the sequence of the pieces of a well-formed format string:  *)
(* literal text, an escaped pair of braces around a name ("{{name}}"), or  *)
(* a replacement field "{name}" / "{name:spec}", whose name can be empty   *)
(* ("{}") and whose spec can hold further fields ("{atk_1:{mascot}}").     *)
(***************************************************************************)
Text == [kind |-> "text", name |-> "", spec |-> <<>>]

Escaped(name) == [kind |-> "escaped", name |-> name, spec |-> <<>>]

Field(name) == [kind |-> "field", name |-> name, spec |-> <<>>]

FieldWithSpec(name, nested) == [kind |-> "field", name |-> name, spec |-> nested]

\* get_all_valid_placeholders
get_all_valid_placeholders ==
    {"atk_1", "atk_2", "atk_3", "atk_4", "atk_goalie",
     "def_1", "def_2", "def_3", "def_4", "def_goalie",
     "referee", "stadium", "atk_team_name", "def_team_name"}

\* the phrases a loader can answer
SamplePhrases ==
    {<<Text>>,
     <<Field("atk_1"), Text, Field("referee")>>,
     <<Text, Field("mascot")>>,
     <<Field("atk_1"), Field("mascot"), Field("coach")>>,
     <<Escaped("mascot"), Field("def_goalie")>>,
     <<Text, Field("")>>,
     <<FieldWithSpec("atk_1", <<"mascot">>)>>,
     <<FieldWithSpec("stadium", <<"atk_2">>)>>}

MaxPhrases == 2

PhraseLists == UNION {[1..n -> SamplePhrases] : n \in 0..MaxPhrases}

\* the player_evaluation dicts a loader can answer, as their items in order
SampleEvaluations ==
    {<<>>,
     <<<<"{atk_1}", 3>>>>,
     <<<<"{def_goalie}", -3>>, <<"{atk_2}", 0>>>>,
     <<<<"{atk_1}", 4>>>>,
     <<<<"{atk_1}", -4>>>>,
     <<<<"atk_1", 1>>>>,
     <<<<"{atk_1}", 1>>, <<"{mascot}", 2>>>>}

SampleScorers == {None, "{atk_1}", "{def_2}", "atk_1", "culo"}

SampleAssists == {None, "{atk_2}", "cacca"}

\* the ActionBlueprint objects validate() is called on
FullBlueprints ==
    [action_type : ActionType, use_var : {FALSE}, phrases : PhraseLists,
     player_evaluation : SampleEvaluations,
     scorer_player : SampleScorers, assist_player : SampleAssists]

RECURSIVE KeysOf(_)
\* extract_keys_from_format_string: the field names string.Formatter().parse
\* yields, in order, without the empty ones (`if field_name`); the fields
\* inside a format spec are part of the spec and are not yielded
KeysOf(phrase) ==
    IF phrase = <<>> THEN <<>>
    ELSE LET t == Head(phrase)
         IN  (IF t.kind = "field" /\ t.name # "" THEN <<t.name>> ELSE <<>>)
             \o KeysOf(Tail(phrase))

extract_keys_from_format_string(phrase) == KeysOf(phrase)

\* find_invalid_keys
find_invalid_keys(phrase, assignment_keys) ==
    SelectSeq(extract_keys_from_format_string(phrase),
              LAMBDA key : key \notin assignment_keys)

Accepted == [raised |-> FALSE, error |-> "none", named |-> <<>>]

Rejected(error, named) == [raised |-> TRUE, error |-> error, named |-> named]

\* the first phrase with invalid keys, 0 if none
FirstInvalidPhrase(phrases) ==
    LET bad == {i \in 1..Len(phrases) :
                   find_invalid_keys(phrases[i], get_all_valid_placeholders) # <<>>}
    IN  IF bad = {} THEN 0 ELSE CHOOSE i \in bad : \A j \in bad : i <= j

RECURSIVE CheckEvaluation(_)
\* the loop of validate() over player_evaluation.items()
CheckEvaluation(items) ==
    IF items = <<>> THEN Accepted
    ELSE LET player == Head(items)[1]
             score == Head(items)[2]
         IN  IF player \notin get_player_valid_placeholders
             THEN Rejected("player_evaluation_placeholder", <<player>>)
             ELSE IF ~(-3 <= score /\ score <= 3)
                  THEN Rejected("player_evaluation_mark", <<score>>)
                  ELSE CheckEvaluation(Tail(items))

\* ActionBlueprint.validate: how the call ends, and what the error names
validate_blueprint(bp) ==
    IF bp.action_type = "goal" /\ bp.scorer_player = None
    THEN Rejected("no_goal_player", <<>>)
    ELSE IF FirstInvalidPhrase(bp.phrases) # 0
    THEN Rejected("invalid_keys",
                  find_invalid_keys(bp.phrases[FirstInvalidPhrase(bp.phrases)],
                                    get_all_valid_placeholders))
    ELSE IF bp.scorer_player # None
            /\ bp.scorer_player \notin get_player_valid_placeholders
    THEN Rejected("goal_player", <<bp.scorer_player>>)
    ELSE IF bp.assist_player # None
            /\ bp.assist_player \notin get_player_valid_placeholders
    THEN Rejected("assist_player", <<bp.assist_player>>)
    ELSE CheckEvaluation(bp.player_evaluation)

\* a call of validate() on a blueprint (one call in a behaviour)
Validate ==
    /\ outcome.op = "init"
    /\ \E bp \in FullBlueprints :
          LET result == validate_blueprint(bp)
          IN  outcome' = [op |-> "validate", raised |-> result.raised,
                          error |-> result.error, named |-> result.named,
                          blueprint |-> bp]
    /\ UNCHANGED <<config, curr_phase, curr_minute, actions, added_time, finished, events>>

ValidateNext == Validate /\ UNCHANGED provVars

ValidateSpec == DefaultMatchInit /\ [][ValidateNext]_vars

\* the names of the replacement fields of a phrase, those of its format specs
\* included
PlaceholdersIn(phrase) ==
    UNION {{phrase[k].name} \cup {phrase[k].spec[n] : n \in 1..Len(phrase[k].spec)} :
              k \in {j \in 1..Len(phrase) : phrase[j].kind = "field"}}

RecognizedPlayer(key) ==
    key \in {"{atk_1}", "{atk_2}", "{atk_3}", "{atk_4}", "{atk_goalie}",
             "{def_1}", "{def_2}", "{def_3}", "{def_4}", "{def_goalie}"}

Recognized ==
    {"atk_1", "atk_2", "atk_3", "atk_4", "atk_goalie",
     "def_1", "def_2", "def_3", "def_4", "def_goalie",
     "referee", "stadium", "atk_team_name", "def_team_name"}

\* C17: validate() accepts a blueprint whose phrases use only recognized
\* placeholders, whose scorer, assist and evaluation keys are recognized
\* player placeholders, whose marks lie in -3..3 and which has a scorer when
\* it is a goal; it rejects a blueprint with a phrase holding a placeholder
\* outside the recognized set, naming such a placeholder when that is what it
\* rejects for, and it rejects a goal without scorer, an unrecognized scorer,
\* assist or evaluation key, and a mark outside -3..3.
C17_ValidateAcceptsExactlyTheValid ==
    outcome.op = "validate" =>
        LET bp == outcome.blueprint
            phrases_ok ==
                \A i \in 1..Len(bp.phrases) : PlaceholdersIn(bp.phrases[i]) \subseteq Recognized
            scorer_ok == bp.scorer_player = None \/ RecognizedPlayer(bp.scorer_player)
            assist_ok == bp.assist_player = None \/ RecognizedPlayer(bp.assist_player)
            keys_ok ==
                \A k \in 1..Len(bp.player_evaluation) :
                    RecognizedPlayer(bp.player_evaluation[k][1])
            marks_ok ==
                \A k \in 1..Len(bp.player_evaluation) :
                    bp.player_evaluation[k][2] \in -3..3
            has_scorer == bp.action_type = "goal" => bp.scorer_player # None
        IN  /\ outcome.raised <=>
                  ~(phrases_ok /\ scorer_ok /\ assist_ok /\ keys_ok /\ marks_ok /\ has_scorer)
            /\ (outcome.raised /\ outcome.error = "invalid_keys") =>
                  /\ outcome.named # <<>>
                  /\ \A n \in 1..Len(outcome.named) :
                        /\ outcome.named[n] \notin Recognized
                        /\ \E i \in 1..Len(bp.phrases) :
                              outcome.named[n] \in PlaceholdersIn(bp.phrases[i])

(***************************************************************************)
(* MatchConfig (src/text_calcio/state/match.py, a dataclass, and           *)
(* src/text_calcio/state/match_config.py, an attrs class).  Probabilities  *)
(* are kept in units of 1e-7.                                              *)
(***************************************************************************)
\* 1.0
One == 10000000

\* atol=1e-6 of the np.isclose call
isclose_atol == 10

\* np.isclose's default rtol=1e-5, as its inverse
isclose_rtol_inverse == 100000

Abs(x) == IF x < 0 THEN -x ELSE x

\* np.isclose(a, b, atol=1e-6): |a - b| <= atol + rtol * |b|
isclose(a, b) == Abs(a - b) <= isclose_atol + (Abs(b) \div isclose_rtol_inverse)

ProbabilityFields ==
    {"standard_action_probability", "extra_time_action_probability",
     "added_time_action_probability", "default_action_no_goal_probability",
     "default_action_goal_probability", "default_action_own_goal_probability",
     "default_action_penalty_probability", "default_action_var_probability"}

\* the keyword arguments MatchConfig is constructed with: the defaults
\* (0.72, 0.18, 0.02, 0.08; 0.15), the values 0.5, 0.2, 0.1, 0.1, sums that
\* miss 1 by 5e-6 and by 2e-5, a value above 1 and negative values
MatchConfigArguments ==
    [standard_action_probability : {1500000, 15000000, -3000000},
     extra_time_action_probability : {3000000},
     added_time_action_probability : {4500000},
     default_action_no_goal_probability : {7200000, 5000000, 15000000},
     default_action_goal_probability : {1800000, 2000000, 1800050, 1800200},
     default_action_own_goal_probability : {200000, 1000000, -5000000},
     default_action_penalty_probability : {800000, 1000000, 0},
     default_action_var_probability : {1000000}]

total_prob(c) ==
    c.default_action_no_goal_probability + c.default_action_goal_probability
    + c.default_action_own_goal_probability + c.default_action_penalty_probability

\* MatchConfig.__post_init__ (the same body in both classes): the error raised
MatchConfig__post_init__(c) ==
    IF ~isclose(total_prob(c), One) THEN "sum"
    ELSE IF \E f \in ProbabilityFields : c[f] > One THEN "above_one"
    ELSE "none"

\* MatchConfig(...) of state/match.py: the __init__ of a dataclass stores the
\* fields and calls __post_init__
dataclass_init(c) ==
    [raised |-> MatchConfig__post_init__(c) # "none", error |-> MatchConfig__post_init__(c)]

\* MatchConfig(...) of state/match_config.py: the __init__ attrs generates
\* stores the fields and calls __attrs_post_init__ if there is one; the
\* class defines __post_init__, which is never called
attrs_init(c) == [raised |-> FALSE, error |-> "none"]

\* a call of MatchConfig(...) of state/match.py (one call in a behaviour)
NewMatchConfig ==
    /\ outcome.op = "init"
    /\ \E c \in MatchConfigArguments :
          outcome' = [op |-> "MatchConfig", class |-> "state.match",
                      raised |-> dataclass_init(c).raised,
                      error |-> dataclass_init(c).error, arguments |-> c]
    /\ UNCHANGED <<config, curr_phase, curr_minute, actions, added_time, finished, events>>

\* a call of MatchConfig(...) of state/match_config.py (one call in a behaviour)
NewMatchConfigAttrs ==
    /\ outcome.op = "init"
    /\ \E c \in MatchConfigArguments :
          outcome' = [op |-> "MatchConfig", class |-> "state.match_config",
                      raised |-> attrs_init(c).raised,
                      error |-> attrs_init(c).error, arguments |-> c]
    /\ UNCHANGED <<config, curr_phase, curr_minute, actions, added_time, finished, events>>

MatchConfigNext == (NewMatchConfig \/ NewMatchConfigAttrs) /\ UNCHANGED provVars

MatchConfigSpec == DefaultMatchInit /\ [][MatchConfigNext]_vars

\* the sum of the four outcome-type probabilities of the arguments
OutcomeTypeSum(c) ==
    c["default_action_no_goal_probability"] + c["default_action_goal_probability"]
    + c["default_action_own_goal_probability"] + c["default_action_penalty_probability"]

AllWithinZeroOne(c) == \A f \in ProbabilityFields : 0 <= c[f] /\ c[f] <= 10000000

\* C18: constructing a MatchConfig whose four outcome-type probabilities miss
\* 1 by more than 1e-6 raises; with a sum of exactly 1 (and every probability
\* within 0..1) it succeeds.
C18_ProbabilitiesMustSumToOne ==
    outcome.op = "MatchConfig" =>
        LET sum == OutcomeTypeSum(outcome.arguments)
        IN  /\ (sum - 10000000 > 10 \/ 10000000 - sum > 10) => outcome.raised
            /\ (sum = 10000000 /\ AllWithinZeroOne(outcome.arguments)) => ~outcome.raised

\* C19: every MatchConfig constructed without error has all its probability
\* fields within 0..1.
C19_ProbabilitiesWithinZeroOne ==
    (outcome.op = "MatchConfig" /\ ~outcome.raised) => AllWithinZeroOne(outcome.arguments)

(***************************************************************************)
(* Binding a blueprint to two teams (BindSpec)                              *)
(* Action.create_from_blueprint gives every placeholder of a role the name  *)
(* of a player. A roster is a sequence of names, the goalkeeper first.      *)
(***************************************************************************)
\* the largest roster
MaxRoster == 5

Squads == << <<"Ada", "Bea", "Cleo", "Dora", "Eva", "Fay">>,
             <<"Ugo", "Vito", "Walt", "Xeno", "Yuri", "Zeno">> >>

\* the rosters team `id` (0 or 1) can have
Rosters(id) == {SubSeq(Squads[id + 1], 1, n) : n \in 0..MaxRoster}

AtkPlaceholders == <<"atk_1", "atk_2", "atk_3", "atk_4", "atk_5", "atk_6">>

DefPlaceholders == <<"def_1", "def_2", "def_3", "def_4", "def_5", "def_6">>

\* Team.get_goalkeeper
get_goalkeeper(players) == IF players # <<>> THEN players[1] ELSE None

\* Team.random_order with no exclusion: the orders random.sample can return
random_order(players, include_goalkeeper) ==
    LET player_pool == IF include_goalkeeper THEN players
                       ELSE SubSeq(players, 2, Len(players))
        n == Len(player_pool)
    IN  {[i \in 1..n |-> player_pool[perm[i]]] :
            perm \in {f \in [1..n -> 1..n] : \A i, j \in 1..n : f[i] = f[j] => i = j}}

\* the player_assignments of Action.create_from_blueprint: the pairs of a
\* placeholder and a name, one placeholder per player of each order and the
\* two goalkeepers
player_assignments(atk_players, def_players, atk_player_order, def_player_order) ==
    {<<AtkPlaceholders[i], atk_player_order[i]>> : i \in 1..(Len(atk_players) - 1)}
    \cup {<<"atk_goalkeeper", get_goalkeeper(atk_players)>>}
    \cup {<<DefPlaceholders[i], def_player_order[i]>> : i \in 1..(Len(def_players) - 1)}
    \cup {<<"def_goalkeeper", get_goalkeeper(def_players)>>}

\* the support_assigments of Action.create_from_blueprint
support_assigments(atk_team_id) ==
    {<<"referee", "Rita">>,
     <<"stadium", "Arena">>,
     <<"atk_team_name", IF atk_team_id = 0 THEN "Home" ELSE "Away">>,
     <<"def_team_name", IF atk_team_id = 0 THEN "Away" ELSE "Home">>}

\* Action.get_all_assigments
get_all_assigments(action) == action.player_assignments \cup action.support_assigments

\* role.strip("{}") of a placeholder written with or without its braces
strip_braces(role) ==
    LET keys == get_all_valid_placeholders
                \cup {"atk_goalkeeper", "def_goalkeeper"}
    IN  IF role \in keys THEN role
        ELSE IF \E key \in keys : role = "{" \o key \o "}"
             THEN CHOOSE key \in keys : role = "{" \o key \o "}"
             ELSE role

\* Action.map_role_to_name: the name the role is bound to, "KeyError" when
\* the assignments have no such key
map_role_to_name(action, role) ==
    LET bound == {pair \in get_all_assigments(action) : pair[1] = strip_braces(role)}
    IN  IF bound = {} THEN "KeyError" ELSE (CHOOSE pair \in bound : TRUE)[2]

\* Action.create_from_blueprint on two rosters: no test of their lengths, no
\* exception
BindBlueprint ==
    /\ outcome.op = "init"
    /\ \E team_0 \in Rosters(0), team_1 \in Rosters(1), atk_team_id \in {0, 1} :
         LET atk_players == IF atk_team_id = 0 THEN team_0 ELSE team_1
             def_players == IF atk_team_id = 0 THEN team_1 ELSE team_0
         IN  \E atk_player_order \in random_order(atk_players, FALSE),
                def_player_order \in random_order(def_players, FALSE) :
                outcome' = [op |-> "create_from_blueprint",
                            raised |-> FALSE,
                            teams |-> <<team_0, team_1>>,
                            action |-> <<[team_atk_id |-> atk_team_id,
                                          player_assignments |->
                                              player_assignments(atk_players, def_players,
                                                  atk_player_order, def_player_order),
                                          support_assigments |->
                                              support_assigments(atk_team_id)]>>]
    /\ UNCHANGED <<config, curr_phase, curr_minute, actions, added_time, finished, events>>

BindNext == BindBlueprint /\ UNCHANGED provVars

BindSpec == DefaultMatchInit /\ [][BindNext]_vars

\* the ten roles every action binds
BoundRoles ==
    {"atk_1", "atk_2", "atk_3", "atk_4", "atk_goalkeeper",
     "def_1", "def_2", "def_3", "def_4", "def_goalkeeper"}

\* C22: binding a blueprint to two teams fails with an error and creates no
\* action when either roster has fewer than 5 players; with at least 5 players
\* in each it succeeds and gives atk_1..atk_4, def_1..def_4 and the two
\* goalkeeper roles a player of the right team.
C22_ShortRosterRefused ==
    outcome.op = "create_from_blueprint" =>
        LET short == \E t \in 1..2 : Len(outcome.teams[t]) < 5
        IN  /\ short => (outcome.raised /\ outcome.action = <<>>)
            /\ ~short =>
                  /\ ~outcome.raised
                  /\ outcome.action # <<>>
                  /\ \A role \in BoundRoles :
                        \E pair \in outcome.action[1].player_assignments :
                            /\ pair[1] = role
                            /\ pair[2] # None

(***************************************************************************)
(* TestController.run (ControllerSpec, ControllerFairSpec)                  *)
(* The loop calls next() while no penalty is pending and the match is not   *)
(* finished, and handle_penalty when one is pending.                        *)
(*                                                                         *)
(* Beyond the configured kicks (minute > 2 * penalties_shoot_count) next()  *)
(* reads nothing of the shootout but the parity of the minute and the       *)
(* score, the side to kick always having one kick left. The state after a   *)
(* round of two missed kicks there has the score of the state before the    *)
(* round, two minutes and two scoreless actions more: SuddenDeathRound      *)
(* recognises it and handle_penalty records it as the state before the      *)
(* round, from which the loop goes on as the code does from the state after *)
(* the round.                                                               *)
(***************************************************************************)
SuddenDeathRound(acts, phase, minute, shoot_count) ==
    /\ phase = "PENALTIES"
    /\ minute % 2 = 0
    /\ minute >= 2 * shoot_count + 2
    /\ Len(acts) >= 2
    /\ \A k \in 0..1 :
          LET a == acts[Len(acts) - k]
          IN  /\ a.phase = "PENALTIES"
              /\ a.minute = minute - k
              /\ a.type = "penalty"
              /\ a.penalty_info # <<>>
              /\ ~is_goal(a)

\* one iteration of the loop of continue_until_input_required
continue_until_input_required ==
    /\ ~is_penalty_pending
    /\ ~finished
    /\ NextShootout \/ NextPhaseEnd \/ NextStandard

\* TestController.handle_penalty: a Penalty of any outcome is kicked
handle_penalty ==
    /\ is_penalty_pending
    /\ \E penalty \in Penalties :
         LET i == CurrentActionIndex(actions, curr_phase, curr_minute)
             kicked == [actions EXCEPT ![i] = action_kick_penalty(@, penalty)]
         IN  IF SuddenDeathRound(kicked, curr_phase, curr_minute,
                                 config.penalties_shoot_count)
             THEN /\ actions' = SubSeq(kicked, 1, Len(kicked) - 2)
                  /\ curr_minute' = curr_minute - 2
             ELSE /\ actions' = kicked
                  /\ curr_minute' = curr_minute
    /\ outcome' = [op |-> "kick_penalty", raised |-> FALSE]
    /\ UNCHANGED <<config, curr_phase, added_time, finished, events>>

run == (continue_until_input_required \/ handle_penalty) /\ UNCHANGED provVars

ControllerSpec == MatchInit /\ [][run]_vars

\* the loop goes on for as long as its condition holds
ControllerFairSpec == ControllerSpec /\ WF_vars(run)

\* C23: a match driven by the loop of the test controller is eventually
\* finished, whatever the tie-break policy, the actions and the outcomes of
\* the penalties (a match that leaves the ticks TickAllowed covers counts as
\* finished here).
C23_LoopReachesFinished == <>(finished \/ ~TickAllowed)

(***************************************************************************)
(* Match.next with its action provider (PipelineSpec)                       *)
(* next() awaits prefetch_blueprints() and then action_provider.get(): the  *)
(* call returns once the background task has generated the blueprint of the *)
(* request (its steps are those of ProviderSpec). `submitted` has the       *)
(* requests made, `received` the blueprints get() returned.                 *)
(***************************************************************************)
PipelineStandard == NextStandardWith(TRUE)

PipelineNext ==
    \/ (NextRaises \/ NextShootout \/ NextPhaseEnd \/ kick_penalty) /\ UNCHANGED provVars
    \/ PipelineStandard

PipelineSpec == MatchInit /\ [][PipelineNext]_vars

\* the actions of the history made from a blueprint of the provider
ProviderActions(acts) == SelectSeq(acts, LAMBDA a : a.phase # "PENALTIES")

\* C24: a call of next() that creates an action in a non-shootout phase makes
\* exactly one request and one get(), every other call makes none; so the
\* numbers of requests and of blueprints received are always equal, and the
\* N-th action made from the provider has the outcome type of the N-th
\* request, its blueprint the review flag of that request.
C24_OneRequestPerAction ==
    /\ [](/\ Len(submitted) = Len(received)
          /\ Len(ProviderActions(actions)) = Len(received)
          /\ \A n \in 1..Len(received) :
                /\ ProviderActions(actions)[n].type = submitted[n].action_type
                /\ received[n].action_type = submitted[n].action_type
                /\ received[n].use_var = submitted[n].use_var
                /\ received[n].request_id = n)
    /\ [][IF /\ outcome'.op = "next"
             /\ Len(actions') = Len(actions) + 1
             /\ curr_phase' # "PENALTIES"
          THEN /\ Len(submitted') = Len(submitted) + 1
               /\ Len(received') = Len(received) + 1
          ELSE UNCHANGED <<submitted, received>>]_vars

\* actions were made from the provider, the first from a request with review
\* and the second from one of another type without, and a shootout tick has
\* appended its action without a request
C24_Witness ==
    /\ Len(submitted) >= 2
    /\ submitted[1].use_var
    /\ ~submitted[2].use_var
    /\ submitted[1].action_type # submitted[2].action_type
    /\ curr_phase = "PENALTIES"
    /\ Len(actions) = Len(submitted) + 1
    /\ actions[Len(actions)].phase = "PENALTIES"

\* C25: a call of next() on a shootout tick that does not end the match
\* appends exactly one action, of type penalty, of the side whose turn it is,
\* with no Penalty, no scorer, no assist and no phrase, and makes no request
\* to and no get() from the provider; while that penalty is pending a call of
\* next() is refused and changes nothing.
C25_ShootoutTickAppendsPendingPenalty ==
    [][/\ (curr_phase = "PENALTIES" /\ Advances /\ ~CannotCatchUp) =>
             LET a == actions'[Len(actions')]
             IN  /\ Len(actions') = Len(actions) + 1
                 /\ SubSeq(actions', 1, Len(actions)) = actions
                 /\ a.type = "penalty"
                 /\ a.team_atk_id = (curr_minute' + 1) % 2
                 /\ a.phase = "PENALTIES"
                 /\ a.minute = curr_minute'
                 /\ a.penalty_info = <<>>
                 /\ a.goal_player = None
                 /\ a.assist_player = None
                 /\ a.sentences = <<>>
                 /\ UNCHANGED provVars
       /\ (curr_phase = "PENALTIES" /\ PendingAtTick /\ outcome'.op = "next") =>
             /\ outcome'.raised
             /\ UNCHANGED <<curr_phase, curr_minute, actions, finished, provVars>>]_vars

\* behind an action with a phrase, made from the provider, the second kick of
\* the shootout is pending and a call of next() has been refused
C25_Witness ==
    /\ curr_phase = "PENALTIES"
    /\ curr_minute = 3
    /\ PendingAtTick
    /\ outcome = [op |-> "next", raised |-> TRUE]
    /\ actions[Len(actions)].team_atk_id = 0
    /\ \E i \in 1..Len(actions) : actions[i].sentences # <<>>
    /\ Len(received) = Len(actions) - 2

\* the actions of the shootout, in the order of the history
ShootoutActions(acts) == SelectSeq(acts, LAMBDA a : a.phase = "PENALTIES")

\* the number of shootout kicks of side `team`
KicksOf(acts, team) ==
    Len(SelectSeq(ShootoutActions(acts), LAMBDA a : a.team_atk_id = team))

\* C26: in the shootout the kicking side alternates: two consecutive shootout
\* actions of the history have different attacking sides, and the numbers of
\* shootout kicks of the two sides differ by at most 1.
C26_ShootoutSidesAlternate ==
    LET kicks == ShootoutActions(actions)
    IN  /\ \A i \in 1..(Len(kicks) - 1) : kicks[i].team_atk_id # kicks[i + 1].team_atk_id
        /\ KicksOf(actions, 0) - KicksOf(actions, 1) \in {-1, 0, 1}

\* C27: in a phase other than the shootout, a call of next() on the tick
\* whose minute is the nominal duration plus the stoppage minutes accrued so
\* far always creates an action, at that tick, whatever the draw that decides
\* whether an action occurs.
C27_LastMinuteForcesAction ==
    [][(/\ Advances
        /\ curr_phase # "PENALTIES"
        /\ curr_minute + 1 = duration_minutes(curr_phase)
                             + get_added_time_minutes(added_time, curr_phase)) =>
          /\ Len(actions') = Len(actions) + 1
          /\ actions'[Len(actions')].phase = curr_phase
          /\ actions'[Len(actions')].minute = curr_minute + 1
          /\ curr_phase' = curr_phase]_vars

\* the second half had stoppage time from a penalty, and on its last minute,
\* beyond the nominal duration, an action was made although the draws were
\* the default ones (no action occurs)
C27_Witness ==
    /\ curr_phase = "SECOND_HALF"
    /\ events = 1
    /\ get_added_time_minutes(added_time, curr_phase) >= 1
    /\ curr_minute = duration_minutes(curr_phase)
                     + get_added_time_minutes(added_time, curr_phase)
    /\ \E i \in 1..Len(actions) :
          /\ actions[i].phase = "SECOND_HALF"
          /\ actions[i].type = "penalty"
          /\ actions[i].minute <= MaxOptionalMinute
    /\ actions[Len(actions)].minute = curr_minute
    /\ actions[Len(actions)].phase = curr_phase
    /\ actions[Len(actions)].type = "no_goal"

\* C28: when next() makes an action on the last minute of a phase and the
\* scores differ, the attacking side is the side with the lower score. (In
\* every other case either side can attack: C28_Witness has the leading side
\* attack one minute earlier.)
C28_LastMinuteGoesToTrailingSide ==
    [][(/\ Advances
        /\ curr_phase # "PENALTIES"
        /\ Len(actions') = Len(actions) + 1
        /\ IsLastMinute(curr_minute + 1, curr_phase, added_time)
        /\ ~Level) =>
          LET side == actions'[Len(actions')].team_atk_id
          IN  ScoreOfSide(actions, side) < ScoreOfSide(actions, 1 - side)]_vars

\* side 0 scored early in the second half; in stoppage time it attacked again
\* as the leading side, and the action of the last minute is of side 1
C28_Witness ==
    /\ curr_phase = "SECOND_HALF"
    /\ curr_minute = duration_minutes("SECOND_HALF") + 2
    /\ get_added_time_minutes(added_time, "SECOND_HALF") = 2
    /\ Len(actions) >= 3
    /\ LET n == Len(actions)
       IN  /\ actions[n - 2].phase = "SECOND_HALF"
           /\ actions[n - 2].type = "goal"
           /\ actions[n - 2].team_atk_id = 0
           /\ actions[n - 1].minute = duration_minutes("SECOND_HALF") + 1
           /\ actions[n - 1].team_atk_id = 0
           /\ actions[n - 1].type = "no_goal"
           /\ actions[n].minute = curr_minute
           /\ actions[n].team_atk_id = 1
    /\ get_current_score(actions) = <<1, 0>>

(***************************************************************************)
(* The probability that a minute of play has an action (ActionPrSpec)       *)
(***************************************************************************)
\* the most minutes of stoppage time of a phase
MaxAddedMinutes == 3

\* action_pr of next(): the field of the configuration the draw of do_action
\* is compared with
action_pr(minute, phase) ==
    IF minute >= duration_minutes(phase)
    THEN "added_time_action_probability"
    ELSE IF phase \in {"FIRST_EXTRA_TIME", "SECOND_EXTRA_TIME"}
    THEN "extra_time_action_probability"
    ELSE "standard_action_probability"

\* the choice of action_pr on a minute of play of a phase (one in a behaviour)
ChooseActionPr ==
    /\ outcome.op = "init"
    /\ \E phase \in Phase \ {"PENALTIES"} :
       \E minute \in 1..(duration_minutes(phase) + MaxAddedMinutes) :
          outcome' = [op |-> "action_pr", raised |-> FALSE,
                      phase |-> phase, minute |-> minute,
                      field |-> action_pr(minute, phase)]
    /\ UNCHANGED <<config, curr_phase, curr_minute, actions, added_time, finished, events>>

ActionPrNext == ChooseActionPr /\ UNCHANGED provVars

ActionPrSpec == DefaultMatchInit /\ [][ActionPrNext]_vars

\* C29: the probability of an action on a minute is the added-time one exactly
\* when the minute is beyond the nominal duration of the phase, the
\* extra-time one exactly when the phase is a half of extra time and the
\* minute is not beyond its duration, and the standard one otherwise.
C29_ActionProbabilityByMinute ==
    outcome.op = "action_pr" =>
        LET stoppage == outcome.minute > duration_minutes(outcome.phase)
            extra == outcome.phase \in {"FIRST_EXTRA_TIME", "SECOND_EXTRA_TIME"}
        IN  /\ outcome.field = "added_time_action_probability" <=> stoppage
            /\ outcome.field = "extra_time_action_probability" <=> (extra /\ ~stoppage)
            /\ outcome.field = "standard_action_probability" <=> (~extra /\ ~stoppage)

(***************************************************************************)
(* CLIDisplay.penalty_interaction: the questions for the direction of the   *)
(* kick and of the dive (InteractionSpec)                                   *)
(* `outcome` has the question that was asked, the answer given, the zones   *)
(* the random draw of that answer could give (empty without a draw), the    *)
(* two directions chosen so far and the question that comes next.           *)
(***************************************************************************)
\* what the controller can return as the user's answer
Answers == {"0", "1", "2", "3", "4", "5", "6", "7", "-1", "1.5", "six", "abc", ""}

\* int(answer): the number in a one-element sequence, <<>> for a ValueError
int(answer) ==
    CASE answer = "0" -> <<0>>
      [] answer = "1" -> <<1>>
      [] answer = "2" -> <<2>>
      [] answer = "3" -> <<3>>
      [] answer = "4" -> <<4>>
      [] answer = "5" -> <<5>>
      [] answer = "6" -> <<6>>
      [] answer = "7" -> <<7>>
      [] answer = "-1" -> <<-1>>
      [] OTHER -> <<>>

\* the six names of direction_names stand for the six zones, in their order
direction_names == ALL_PENALTY_DIRECTIONS

\* np.random.randint(low, high): low included, high excluded
randint(low, high) == low..(high - 1)

\* the body of the try of a direction question: the indices (from 0) the
\* answer can select, none after a ValueError
direction_indices(answer) ==
    IF int(answer) = <<>> THEN {}
    ELSE LET q_int == int(answer)[1]
         IN  IF ~(0 <= q_int /\ q_int <= Len(direction_names)) THEN {}
             ELSE IF q_int = 0 THEN randint(0, Len(direction_names) - 1)
             ELSE {q_int - 1}

\* the state of the interaction once `question` was answered with `answer`
\* and `index` selected (index -1: invalid answer, nothing selected)
Answered(question, answer, index, kick, dive) ==
    [op |-> "penalty_interaction",
     raised |-> FALSE,
     asked |-> question,
     answer |-> answer,
     zones |-> IF int(answer) = <<0>>
               THEN {ALL_PENALTY_DIRECTIONS[i + 1] : i \in direction_indices(answer)}
               ELSE {},
     kick_direction_id |->
         IF question = "kick" /\ index >= 0
         THEN ALL_PENALTY_DIRECTIONS[index + 1] ELSE kick,
     save_direction_id |->
         IF question = "dive" /\ index >= 0
         THEN ALL_PENALTY_DIRECTIONS[index + 1] ELSE dive,
     question |-> IF index < 0 THEN question
                  ELSE IF question = "kick" THEN "dive" ELSE "done"]

\* one turn of the loop `while q1_remain`
AskKick ==
    /\ outcome.op = "init" \/ (outcome.op = "penalty_interaction" /\ outcome.question = "kick")
    /\ \E answer \in Answers :
       \E index \in (IF direction_indices(answer) = {} THEN {-1}
                     ELSE direction_indices(answer)) :
          outcome' = Answered("kick", answer, index, None, None)
    /\ UNCHANGED <<config, curr_phase, curr_minute, actions, added_time, finished, events>>

\* one turn of the loop `while q2_remain`
AskDive ==
    /\ outcome.op = "penalty_interaction"
    /\ outcome.question = "dive"
    /\ \E answer \in Answers :
       \E index \in (IF direction_indices(answer) = {} THEN {-1}
                     ELSE direction_indices(answer)) :
          outcome' = Answered("dive", answer, index, outcome.kick_direction_id, None)
    /\ UNCHANGED <<config, curr_phase, curr_minute, actions, added_time, finished, events>>

InteractionNext == (AskKick \/ AskDive) /\ UNCHANGED provVars

InteractionSpec == DefaultMatchInit /\ [][InteractionNext]_vars

\* the direction the question just asked has selected, None if none
Selected ==
    IF outcome.asked = "kick" THEN outcome.kick_direction_id
    ELSE outcome.save_direction_id

\* C30: in the questions for the direction of the kick and of the dive, the
\* answer "random" (0) can give every one of the 6 zones, an answer k of 1..6
\* gives the k-th zone of ALL_PENALTY_DIRECTIONS, and any other answer selects
\* nothing and has the question asked again.
C30_DirectionAnswers ==
    outcome.op = "penalty_interaction" =>
        LET a == outcome.answer
            k == CHOOSE n \in 0..6 :
                    a \in {"0", "1", "2", "3", "4", "5", "6"} => int(a) = <<n>>
        IN  /\ a = "0" =>
                 /\ outcome.zones = PenaltyDirection
                 /\ Selected \in outcome.zones
            /\ a \in {"1", "2", "3", "4", "5", "6"} =>
                 Selected = ALL_PENALTY_DIRECTIONS[k]
            /\ a \notin {"0", "1", "2", "3", "4", "5", "6"} =>
                 /\ Selected = None
                 /\ outcome.question = outcome.asked

\* the kicks side `team` has left out of the configured ones, at least one
KicksLeft(acts, team, shoot_count) ==
    IF shoot_count - KicksOf(acts, team) > 1
    THEN shoot_count - KicksOf(acts, team) ELSE 1

\* C31: a call of next() that ends the shootout does so only when the result
\* is decided: the side whose turn it is could not reach the score of the
\* other side even by scoring every kick it has left out of the configured
\* ones (at least one).
C31_ShootoutEndsOnlyWhenDecided ==
    [][(curr_phase = "PENALTIES" /\ Advances /\ ~finished /\ finished') =>
          LET side == curr_minute % 2
          IN  ScoreOfSide(actions, side)
                  + KicksLeft(actions, side, config.penalties_shoot_count)
              < ScoreOfSide(actions, 1 - side)]_vars

\* C32: on every shootout tick the value (minute - 1) // 2 that next() uses
\* as the kicks taken is the number of shootout actions of the history of the
\* side whose turn it is.
C32_KickCountIsKicksTaken ==
    [][(curr_phase = "PENALTIES" /\ Advances) =>
          LET minute == curr_minute + 1
              curr_team_kicking == (minute + 1) % 2
          IN  (minute - 1) \div 2 = KicksOf(actions, curr_team_kicking)]_vars

\* C33: the PENALTIES phase is entered only with level scores, and in every
\* state a finished match whose phase is PENALTIES has two different scores.
C33_ShootoutNeverEndsLevel ==
    /\ []((finished /\ curr_phase = "PENALTIES") => ~Level)
    /\ [][(curr_phase # "PENALTIES" /\ curr_phase' = "PENALTIES") =>
             (Level /\ Level')]_vars

\* extra time ended level, and the shootout that followed is finished with a
\* score that is not level
C33_Witness ==
    /\ finished
    /\ curr_phase = "PENALTIES"
    /\ ~config.start_from_penalties
    /\ config.tie_breaker = "on_tie_extra_time_and_penalties"
    /\ ~Level
    /\ outcome = [op |-> "next", raised |-> FALSE]

\* C34: the history has at most one action for a phase and a minute and no
\* action at minute 1 of a phase; the action get_current_action returns, when
\* there is one, is the last action of the history.
C34_OneActionPerTick ==
    /\ \A i, j \in 1..Len(actions) :
          (actions[i].phase = actions[j].phase /\ actions[i].minute = actions[j].minute)
              => i = j
    /\ \A i \in 1..Len(actions) : actions[i].minute # 1
    /\ CurrentActionIndex(actions, curr_phase, curr_minute) \in {0, Len(actions)}

\* the two halves each have an action at their minute 45, and the action of
\* the current tick is the third of the history
C34_Witness ==
    /\ Len(actions) = 3
    /\ CurrentActionIndex(actions, curr_phase, curr_minute) = 3
    /\ actions[1].phase = "FIRST_HALF"
    /\ actions[2].phase = "SECOND_HALF"
    /\ actions[1].minute = actions[2].minute
    /\ actions[3].phase = "PENALTIES"

\* C35: an action of type no_goal made by next() leaves the score as it was,
\* and every action that counts in the score has type goal or own_goal, or is
\* a penalty whose Penalty has is_goal true.
C35_NoGoalNeverScores ==
    /\ [](\A i \in 1..Len(actions) :
             is_goal(actions[i]) =>
                \/ actions[i].type \in {"goal", "own_goal"}
                \/ /\ actions[i].type = "penalty"
                   /\ actions[i].penalty_info # <<>>
                   /\ actions[i].penalty_info[1].is_goal)
    /\ [][(/\ Advances
           /\ Len(actions') = Len(actions) + 1
           /\ actions'[Len(actions')].type = "no_goal") =>
             get_current_score(actions') = get_current_score(actions)]_vars

(***************************************************************************)
(* A penalty action made with its Penalty and one resolved by kick_penalty  *)
(* (RebuildSpec)                                                            *)
(***************************************************************************)
\* the largest minute of a stored action
MaxStoredMinute == 5

\* the scorers a stored penalty action can be given to the constructor with
StoredScorers == {None, "Dani", "{atk_1}"}

\* Action(...) called with type penalty and a Penalty, and the same action
\* made pending and resolved by Action.kick_penalty with that Penalty (one
\* pair in a behaviour)
RebuildAction ==
    /\ outcome.op = "init"
    /\ \E team \in {0, 1}, phase \in Phase, minute \in 2..MaxStoredMinute,
          goal_player \in StoredScorers, penalty \in Penalties :
          outcome' = [op |-> "Action", raised |-> FALSE,
                      penalty |-> penalty,
                      rebuilt |-> NewAction(team, phase, minute, "penalty",
                                            goal_player, None, <<>>, <<penalty>>),
                      resolved |-> action_kick_penalty(
                                       NewAction(team, phase, minute, "penalty",
                                                 None, None, <<>>, <<>>),
                                       penalty)]
    /\ UNCHANGED <<config, curr_phase, curr_minute, actions, added_time, finished, events>>

RebuildNext == RebuildAction /\ UNCHANGED provVars

RebuildSpec == DefaultMatchInit /\ [][RebuildNext]_vars

\* C36: a penalty action constructed with its Penalty has the scorer of the
\* action resolved by kick_penalty with that Penalty: in both the scorer is
\* the kicker if and only if the Penalty's is_goal is true, so a penalty that
\* was missed or saved is no goal.
C36_RebuiltPenaltyScorer ==
    outcome.op = "Action" =>
        /\ outcome.rebuilt.goal_player = outcome.resolved.goal_player
        /\ \A a \in {outcome.rebuilt, outcome.resolved} :
              /\ a.goal_player = outcome.penalty.player_kicking <=> outcome.penalty.is_goal
              /\ ~outcome.penalty.is_goal => ~is_goal(a)

\* phase p, not the shootout, was played and has ended: a later phase has
\* followed it, or the match is finished in it
Ended(p) ==
    /\ p # "PENALTIES"
    /\ ~config.start_from_penalties
    /\ \/ curr_phase = p /\ finished
       \/ /\ PhaseLt(p, curr_phase)
          /\ \/ p \in {"FIRST_HALF", "SECOND_HALF"}
             \/ curr_phase = "SECOND_EXTRA_TIME"
             \/ config.tie_breaker = "on_tie_extra_time_and_penalties"

\* the index of the last action of phase p, 0 if it has none
LastActionIn(acts, p) ==
    LET there == {i \in 1..Len(acts) : acts[i].phase = p}
    IN  IF there = {} THEN 0 ELSE CHOOSE i \in there : \A j \in there : j <= i

\* C37: every phase other than the shootout that has ended has at least one
\* action, and its last action is on the last minute played in it, the
\* nominal duration plus the stoppage minutes of the phase.
C37_EndedPhaseHasLastMinuteAction ==
    \A p \in Phase :
        Ended(p) =>
            /\ LastActionIn(actions, p) # 0
            /\ actions[LastActionIn(actions, p)].minute =
                   duration_minutes(p) + get_added_time_minutes(added_time, p)

\* the first half has ended after two minutes of stoppage time, given by a
\* goal scored in it, its last action at minute 47; the second half is on
C37_Witness ==
    /\ curr_phase = "SECOND_HALF"
    /\ Ended("FIRST_HALF")
    /\ get_added_time_minutes(added_time, "FIRST_HALF") = 2
    /\ actions[LastActionIn(actions, "FIRST_HALF")].minute = 47
    /\ \E i \in 1..Len(actions) :
          /\ actions[i].phase = "FIRST_HALF"
          /\ actions[i].type = "goal"
          /\ actions[i].minute < 45

\* C38: in an action made by binding a blueprint to two rosters of at least
\* 5 players, every placeholder validate() accepts, in a phrase or as scorer,
\* assist or evaluation key, is a key of the assignments of the action, and
\* map_role_to_name finds its name.
C38_ValidatedRolesAreBound ==
    (/\ outcome.op = "create_from_blueprint"
     /\ ~outcome.raised
     /\ \A t \in 1..2 : Len(outcome.teams[t]) >= 5) =>
        LET action == outcome.action[1]
            keys == {pair[1] : pair \in get_all_assigments(action)}
        IN  /\ get_all_valid_placeholders \subseteq keys
            /\ \A role \in get_all_valid_placeholders \cup get_player_valid_placeholders :
                  map_role_to_name(action, role) # "KeyError"

(***************************************************************************)
(* The statistics of a team, TeamStats.create_from_match, over the history *)
(* of the match up to the current minute.  A percentage is kept as the     *)
(* exact fraction num / den of the division the code makes, so that two    *)
(* percentages fail to sum to 100 only when the counts themselves do.      *)
(***************************************************************************)

\* Match.get_all_actions_to_now: the actions of the earlier phases and those
\* of the current phase up to the current minute
get_all_actions_to_now(acts, phase, minute) ==
    SelectSeq(acts, LAMBDA action :
        \/ PhaseLt(action.phase, phase)
        \/ (action.phase = phase /\ action.minute <= minute))

\* the actions of the list attacked by the team outside the shootout
n_attempts(all_actions, team_id) ==
    Cardinality({i \in 1..Len(all_actions) :
        /\ all_actions[i].team_atk_id = team_id
        /\ all_actions[i].phase # "PENALTIES"})

\* n_attempts / len(all_actions) * 100, and 0 for an empty list
ball_possession_percentage(all_actions, team_id) ==
    IF Len(all_actions) > 0
    THEN [num |-> n_attempts(all_actions, team_id) * 100, den |-> Len(all_actions)]
    ELSE [num |-> 0, den |-> 1]

\* the sum of two percentages is 100
SumTo100(p, q) == p.num * q.den + q.num * p.den = 100 * p.den * q.den

\* C39: whenever the history up to the current minute has at least one
\* action, the ball-possession percentages of the two teams sum to 100 and
\* the attempts of each team are its attacking actions outside the shootout,
\* in the PENALTIES phase too.
C39_PossessionSumsTo100 ==
    LET all_actions == get_all_actions_to_now(actions, curr_phase, curr_minute)
    IN  Len(all_actions) >= 1 =>
            /\ SumTo100(ball_possession_percentage(all_actions, 0),
                        ball_possession_percentage(all_actions, 1))
            /\ \A team_id \in 0..1 :
                  n_attempts(all_actions, team_id) =
                      Cardinality({i \in 1..Len(actions) :
                          /\ actions[i].team_atk_id = team_id
                          /\ actions[i].phase # "PENALTIES"})

====
